---- MODULE Spec2Model ----
(***************************************************************************)
(* Model of the WiFi device identifier's market-price pipeline:            *)
(*   src/scraper/price_scraper.py  (TokopediaScraper)                      *)
(*   src/app/routes.py             (login, api_scrape_price, cache clear)  *)
(* Three specifications share the module:                                  *)
(*   SpecEst   the price extraction / cleaning / median functions applied  *)
(*             to bounded page contents;                                   *)
(*   Spec      one scraper instance serving requests one after another;    *)
(*   SpecConc  request threads interleaving on the shared scraper.         *)
(***************************************************************************)
EXTENDS Integers, Sequences, FiniteSets, TLC

VARIABLES
    \* ---- estimator pipeline (SpecEst) ----
    matches,        \* integers parsed from the page text, in page order
    raw,            \* raw_prices handed to the cleaning step
    clean,          \* clean_prices after the MIN_SAMPLES fallback
    est,            \* MarketPrice record or None
    src,            \* how raw was obtained: "fetch" | "direct"
    pcE,            \* "page" | "raw" | "done"
    \* ---- the shared TokopediaScraper instance and the clock ----
    cache,          \* self._cache: query -> None | [result, time]
    last_request,   \* self._last_request: NoTime | time
    now,            \* datetime.now(), in seconds
    \* ---- requests served one after another (Spec) ----
    history,        \* one record per request handled, oldest first
    logs,           \* rows of login_logs written by log_login
    idle,           \* TRUE when time has passed since the last request
    \* ---- request threads inside get_market_price (SpecConc) ----
    tpc,            \* per thread: the statement it is at
    tloc,           \* per thread: locals (query, cached entry, wake time, result)
    tcalls,         \* per thread: calls started
    fetchStarts,    \* times at which session.get was issued, in order
    ticks,          \* clock advances so far
    \* ---- device identification of one request (SpecUA) ----
    req_ua,         \* the User-Agent header
    req_hint,       \* the Sec-CH-UA-Model header, '' when absent
    req_parsed,     \* ParsedDevice or None
    req_codes,      \* candidate tokens of the lookup loop
    req_lookups,    \* arguments find_device was called with, in order
    matched,        \* DeviceInfo or None
    pcI,            \* "request" | "parsed" | "hinted" | "done"
    \* ---- a DeviceDatabase built from its tables (SpecDb) ----
    csv_devices,    \* rows of the devices CSV
    csv_prices,     \* rows of the prices CSV
    db,             \* [devices, keys, prices] or None
    asked,          \* the model code find_device is given, or the query
    asked_threshold, \* the threshold search_device is given, <<n, d>>
    answer,         \* what find_device or search_device returned
    pcD             \* "csv" | "loaded" | "found" | "matched" | "searched"

estVars == <<matches, raw, clean, est, src, pcE>>
scrVars == <<cache, last_request, now>>
seqVars == <<history, logs, idle>>
conVars == <<tpc, tloc, tcalls, fetchStarts, ticks>>
idVars == <<req_ua, req_hint, req_parsed, req_codes, req_lookups, matched, pcI>>
dbVars == <<csv_devices, csv_prices, db, asked, asked_threshold, answer, pcD>>

vars == <<matches, raw, clean, est, src, pcE, cache, last_request, now,
          history, logs, idle, tpc, tloc, tcalls, fetchStarts, ticks,
          req_ua, req_hint, req_parsed, req_codes, req_lookups, matched, pcI,
          csv_devices, csv_prices, db, asked, asked_threshold, answer, pcD>>

\* Python None, one per type it stands in for
None == [none |-> TRUE]
NoTime == 0 - 1
NoPrice == 0 - 1
NoText == <<"<None>">>

(***************************************************************************)
(* Program constants (class attributes of TokopediaScraper).               *)
(***************************************************************************)
MIN_SAMPLES == 5
TRIM_BOTTOM_PCT == 15
TRIM_TOP_PCT == 15
PRICE_MIN == 500000
PRICE_MAX == 50000000
CACHE_DURATION == 3600
REQUEST_DELAY == 2
FETCH_TIMEOUT == 15

(***************************************************************************)
(* Bounds of the model.                                                    *)
(***************************************************************************)
MaxRaw == 8
MaxCalls == 2
MaxClears == 1
NThreads == 2
MaxThreadCalls == 1
MaxTicks == 2
MaxLong == 14
MaxSegs == 3
MaxRows == 2

(***************************************************************************)
(* Python list helpers.                                                    *)
(***************************************************************************)
RECURSIVE Insert(_, _)
Insert(s, v) ==
    IF s = <<>> THEN <<v>>
    ELSE IF v < Head(s) THEN <<v>> \o s
    ELSE <<Head(s)>> \o Insert(Tail(s), v)

RECURSIVE SortAsc(_)
SortAsc(s) == IF s = <<>> THEN <<>> ELSE Insert(SortAsc(Tail(s)), Head(s))

RECURSIVE MinOf(_)
MinOf(s) ==
    IF Len(s) = 1 THEN s[1]
    ELSE LET m == MinOf(Tail(s)) IN IF s[1] < m THEN s[1] ELSE m

RECURSIVE MaxOf(_)
MaxOf(s) ==
    IF Len(s) = 1 THEN s[1]
    ELSE LET m == MaxOf(Tail(s)) IN IF s[1] > m THEN s[1] ELSE m

Reverse(s) == [i \in 1..Len(s) |-> s[Len(s) + 1 - i]]

\* s[lo:hi] with 0 <= lo and a non-negative or negative hi, as Python slices
PySlice(s, lo, hi) ==
    LET n  == Len(s)
        h  == IF hi < 0 THEN (IF n + hi < 0 THEN 0 ELSE n + hi)
              ELSE (IF hi > n THEN n ELSE hi)
        l  == IF lo > n THEN n ELSE lo
    IN  IF h <= l THEN <<>> ELSE SubSeq(s, l + 1, h)

\* number of occurrences of v in s
Count(s, v) == Cardinality({i \in 1..Len(s) : s[i] = v})

(***************************************************************************)
(* _extract_prices_from_html, after the regex and _parse_price_string:     *)
(* keep the in-band values, then drop repeated values keeping the first.   *)
(***************************************************************************)
InBand(p) == p # 0 /\ PRICE_MIN <= p /\ p <= PRICE_MAX

RECURSIVE UniquePrices(_, _)
UniquePrices(prices, seen) ==
    IF prices = <<>> THEN <<>>
    ELSE IF Head(prices) \in seen THEN UniquePrices(Tail(prices), seen)
    ELSE <<Head(prices)>> \o UniquePrices(Tail(prices), seen \cup {Head(prices)})

ExtractPrices(found) == UniquePrices(SelectSeq(found, InBand), {})

(***************************************************************************)
(* _clean_prices                                                           *)
(***************************************************************************)
\* int(total * 0.15): the double product truncates to floor(15*total/100)
\* for every list length a page can produce
TrimCount(total, pct) == (total * pct) \div 100

\* variant: the "at least one once there are six" rule left out at the bottom
CutBottomNoFloor(total) == TrimCount(total, TRIM_BOTTOM_PCT)

CutBottom(total) ==
    LET c == TrimCount(total, TRIM_BOTTOM_PCT)
    IN  IF total >= 6 /\ c < 1 THEN 1 ELSE c

\* variant: nothing is cut at the top
CutTopNothing(total) == 0

CutTop(total) ==
    LET c == TrimCount(total, TRIM_TOP_PCT)
    IN  IF total >= 6 /\ c < 1 THEN 1 ELSE c

CleanPrices(prices) ==
    IF Len(prices) < 3 THEN prices
    ELSE LET sorted_prices == SortAsc(prices)
             total         == Len(sorted_prices)
             cut_bottom    == CutBottom(total)
             cut_top       == CutTop(total)
         IN  IF cut_top = 0
             THEN PySlice(sorted_prices, cut_bottom, total)
             ELSE PySlice(sorted_prices, cut_bottom, 0 - cut_top)

\* variant: the cleaned list is used even when fewer than MIN_SAMPLES remain
UsedSampleNoFallback(raw_prices) == CleanPrices(raw_prices)

\* get_market_price, STEP 5: clean, fall back to the raw list when too few remain
UsedSample(raw_prices) ==
    LET clean_prices == CleanPrices(raw_prices)
    IN  IF Len(clean_prices) < MIN_SAMPLES THEN raw_prices ELSE clean_prices

(***************************************************************************)
(* _calculate_market_price: statistics.median, then round(m / 1000) * 1000 *)
(***************************************************************************)
\* twice the median, so that the mean of two middle values stays an integer
Median2(prices) ==
    LET s == SortAsc(prices)
        n == Len(s)
    IN  IF n % 2 = 1 THEN 2 * s[(n + 1) \div 2]
        ELSE s[n \div 2] + s[n \div 2 + 1]

\* Python 3 round(num / den): nearest integer, ties to the even one
RoundHalfEven(num, den) ==
    LET q == num \div den
        r == num % den
    IN  IF 2 * r < den THEN q
        ELSE IF 2 * r > den THEN q + 1
        ELSE IF q % 2 = 0 THEN q ELSE q + 1

\* variant: the median is cut down to the thousand below it
CalculateMarketPriceFloor(prices) ==
    IF prices = <<>> THEN 0
    ELSE (Median2(prices) \div 2000) * 1000

CalculateMarketPrice(prices) ==
    IF prices = <<>> THEN 0
    ELSE RoundHalfEven(Median2(prices), 2000) * 1000

(***************************************************************************)
(* _determine_confidence                                                   *)
(***************************************************************************)
\* variant: the label follows the raw count
DetermineConfidenceByRaw(raw_count, clean_count) ==
    IF raw_count >= 10 THEN "high"
    ELSE IF raw_count >= 5 THEN "medium"
    ELSE "low"

DetermineConfidence(raw_count, clean_count) ==
    IF clean_count >= 10 THEN "high"
    ELSE IF clean_count >= 5 THEN "medium"
    ELSE "low"

(***************************************************************************)
(* get_market_price, STEP 4 .. STEP 8: from raw_prices to the result.      *)
(***************************************************************************)
\* variant: the range is taken over the raw list
MarketPriceRawBounds(raw_prices, clean_prices, url, t) ==
    [ market_price |-> CalculateMarketPrice(clean_prices),
      min_price    |-> MinOf(raw_prices),
      max_price    |-> MaxOf(raw_prices),
      sample_count |-> Len(clean_prices),
      raw_count    |-> Len(raw_prices),
      confidence   |-> DetermineConfidence(Len(raw_prices), Len(clean_prices)),
      search_url   |-> url,
      scraped_at   |-> t ]

MarketPrice(raw_prices, clean_prices, url, t) ==
    [ market_price |-> CalculateMarketPrice(clean_prices),
      min_price    |-> MinOf(clean_prices),
      max_price    |-> MaxOf(clean_prices),
      sample_count |-> Len(clean_prices),
      raw_count    |-> Len(raw_prices),
      confidence   |-> DetermineConfidence(Len(raw_prices), Len(clean_prices)),
      search_url   |-> url,
      scraped_at   |-> t ]

\* variant: no early return on an empty list, the record is built from nothing
EstimateNoEmptyGuard(raw_prices, url, t) ==
    IF raw_prices = <<>>
    THEN [ market_price |-> CalculateMarketPrice(raw_prices),
           min_price |-> 0, max_price |-> 0, sample_count |-> 0,
           raw_count |-> 0, confidence |-> DetermineConfidence(0, 0),
           search_url |-> url, scraped_at |-> t ]
    ELSE MarketPrice(raw_prices, UsedSample(raw_prices), url, t)

Estimate(raw_prices, url, t) ==
    IF raw_prices = <<>> THEN None
    ELSE MarketPrice(raw_prices, UsedSample(raw_prices), url, t)

(***************************************************************************)
(* Text.  A Python str is modelled as a sequence of one-character strings. *)
(***************************************************************************)
UpperLetters ==
    <<"A", "B", "C", "D", "E", "F", "G", "H", "I", "J", "K", "L", "M", "N",
      "O", "P", "Q", "R", "S", "T", "U", "V", "W", "X", "Y", "Z">>
LowerLetters ==
    <<"a", "b", "c", "d", "e", "f", "g", "h", "i", "j", "k", "l", "m", "n",
      "o", "p", "q", "r", "s", "t", "u", "v", "w", "x", "y", "z">>
Digits == {"0", "1", "2", "3", "4", "5", "6", "7", "8", "9"}
UpperChars == {UpperLetters[i] : i \in 1..26}
LowerChars == {LowerLetters[i] : i \in 1..26}
LowerOf == [c \in UpperChars |->
               LowerLetters[CHOOSE i \in 1..26 : UpperLetters[i] = c]]
UpperOf == [c \in LowerChars |->
               UpperLetters[CHOOSE i \in 1..26 : LowerLetters[i] = c]]
WordChars == UpperChars \cup LowerChars \cup Digits \cup {"_"}
SpaceChars == {" ", "\t", "\n"}

\* str.lower(), character by character
ToLower(s) == [i \in 1..Len(s) |-> IF s[i] \in UpperChars THEN LowerOf[s[i]]
                                   ELSE s[i]]

\* str.upper(), character by character
ToUpper(s) == [i \in 1..Len(s) |-> IF s[i] \in LowerChars THEN UpperOf[s[i]]
                                   ELSE s[i]]

RECURSIVE LStrip(_)
LStrip(s) ==
    IF s # <<>> /\ Head(s) \in SpaceChars THEN LStrip(Tail(s)) ELSE s

\* str.strip()
Strip(s) == Reverse(LStrip(Reverse(LStrip(s))))

IsWordOrSpace(c) == c \in WordChars \/ c \in SpaceChars

\* ' '.join(text.split()): runs of whitespace become one space, none at the ends
RECURSIVE SquashSpaces(_)
SquashSpaces(s) ==
    IF s = <<>> THEN <<>>
    ELSE IF Head(s) \in SpaceChars
         THEN LET rest == LStrip(s)
              IN  IF rest = <<>> THEN <<>> ELSE <<" ">> \o SquashSpaces(rest)
    ELSE <<Head(s)>> \o SquashSpaces(Tail(s))

\* _normalize_query: re.sub(r'[^\w\s]', '', query), lower(), split/join
NormalizeQuery(query) ==
    SquashSpaces(LStrip(ToLower(SelectSeq(query, IsWordOrSpace))))

\* _build_smart_url: the fixed filter parameters around the query
BuildSmartUrl(query) == <<"q">> \o query \o <<"&", "condition=1", "rt=4,5",
                          "goldmerchant=true", "ob=5", "rows=30">>

(***************************************************************************)
(* The external site.  One outcome per _fetch_prices call.                 *)
(***************************************************************************)
\* page contents of a 200 response: the integers the price regex yields
Pages == { <<15000>>, <<8500000, 8400000, 8500000>> }

RequestFailures == {"timeout", "transport_error", "http_error"}

Outcomes == [kind : RequestFailures \cup {"parse_error"}, page : {<<>>}]
            \cup [kind : {"ok"}, page : Pages]

NoOutcome == [kind |-> "none", page |-> <<>>]

\* variant: the handler for requests.Timeout is missing
FetchPricesTimeoutEscapes(outcome) ==
    IF outcome.kind \in {"timeout", "parse_error"}
    THEN [prices |-> <<>>, raised |-> TRUE, attempts |-> 1, dur |-> 1]
    ELSE IF outcome.kind \in {"transport_error", "http_error"}
    THEN [prices |-> <<>>, raised |-> FALSE, attempts |-> 1, dur |-> 1]
    ELSE [prices |-> ExtractPrices(outcome.page), raised |-> FALSE,
          attempts |-> 1, dur |-> 1]

\* _fetch_prices: one session.get; Timeout and RequestException are caught and
\* a non-200 status returns early; anything raised while parsing is not caught
FetchPrices(outcome) ==
    IF outcome.kind = "timeout"
    THEN [prices |-> <<>>, raised |-> FALSE, attempts |-> 1, dur |-> FETCH_TIMEOUT]
    ELSE IF outcome.kind = "transport_error"
    THEN [prices |-> <<>>, raised |-> FALSE, attempts |-> 1, dur |-> 1]
    ELSE IF outcome.kind = "http_error"
    THEN [prices |-> <<>>, raised |-> FALSE, attempts |-> 1, dur |-> 1]
    ELSE IF outcome.kind = "parse_error"
    THEN [prices |-> <<>>, raised |-> TRUE, attempts |-> 1, dur |-> 1]
    ELSE [prices |-> ExtractPrices(outcome.page), raised |-> FALSE,
          attempts |-> 1, dur |-> 1]

(***************************************************************************)
(* Cache and rate limiter.                                                 *)
(***************************************************************************)
\* variant: the freshness comparison is inverted
GetFromCacheInverted(c, query, t) ==
    IF c[query] = None THEN [result |-> None, cache |-> c]
    ELSE IF t - c[query].time >= CACHE_DURATION
         THEN [result |-> c[query].result, cache |-> c]
    ELSE [result |-> None, cache |-> [c EXCEPT ![query] = None]]

\* variant: an entry is still served at the very second it expires
GetFromCacheServesAtExpiry(c, query, t) ==
    IF c[query] = None THEN [result |-> None, cache |-> c]
    ELSE IF t - c[query].time <= CACHE_DURATION
         THEN [result |-> c[query].result, cache |-> c]
    ELSE [result |-> None, cache |-> [c EXCEPT ![query] = None]]

\* variant: a hit stores the entry anew with the time of the read
GetFromCacheRefreshes(c, query, t) ==
    IF c[query] = None THEN [result |-> None, cache |-> c]
    ELSE IF t - c[query].time < CACHE_DURATION
         THEN [result |-> c[query].result,
               cache |-> [c EXCEPT ![query].time = t]]
    ELSE [result |-> None, cache |-> [c EXCEPT ![query] = None]]

\* _get_from_cache: the stored record while fresh; an expired entry is deleted
GetFromCache(c, query, t) ==
    IF c[query] = None THEN [result |-> None, cache |-> c]
    ELSE IF t - c[query].time < CACHE_DURATION
         THEN [result |-> c[query].result, cache |-> c]
    ELSE [result |-> None, cache |-> [c EXCEPT ![query] = None]]

\* _save_to_cache
SaveToCache(c, query, result, t) ==
    [c EXCEPT ![query] = [result |-> result, time |-> t]]

\* variant: the limiter never sleeps
SleepTimeNever(lr, t) == 0

\* _apply_rate_limit: the time slept before the timestamp is taken
SleepTime(lr, t) ==
    IF lr # NoTime /\ t - lr < REQUEST_DELAY THEN REQUEST_DELAY - (t - lr) ELSE 0

(***************************************************************************)
(* get_market_price run to completion at time t on scraper state (c, lr).  *)
(* The result carries the new scraper state, the clock at return, the      *)
(* returned value and what the call did.                                   *)
(***************************************************************************)
GetMarketPrice(c, lr, t, device_name, outcome) ==
    IF device_name = <<>> \/ Len(Strip(device_name)) < 3
    THEN [cache |-> c, last_request |-> lr, now |-> t, ret |-> None,
          raised |-> FALSE, query |-> NoText, hit |-> FALSE, fetched |-> FALSE,
          attempts |-> 0, fetch_start |-> NoTime, outcome |-> NoOutcome]
    ELSE
    LET query  == NormalizeQuery(device_name)
        cached == GetFromCache(c, query, t)
    IN  IF cached.result # None
        THEN [cache |-> cached.cache, last_request |-> lr, now |-> t,
              ret |-> cached.result, raised |-> FALSE, query |-> query,
              hit |-> TRUE, fetched |-> FALSE, attempts |-> 0,
              fetch_start |-> NoTime, outcome |-> NoOutcome]
        ELSE
        LET t1 == t + SleepTime(lr, t)
            f  == FetchPrices(outcome)
            t2 == t1 + f.dur
            r  == IF f.raised THEN None
                  ELSE Estimate(f.prices, BuildSmartUrl(query), t2)
        IN  [cache |-> IF r = None THEN cached.cache
                       ELSE SaveToCache(cached.cache, query, r, t2),
             last_request |-> t1, now |-> t2, ret |-> r,
             raised |-> f.raised, query |-> query, hit |-> FALSE,
             fetched |-> TRUE, attempts |-> f.attempts, fetch_start |-> t1,
             outcome |-> outcome]

\* _legacy_search_price (bound as TokopediaScraper.search_price)
ScrapedPrice(result) ==
    IF result = None THEN None
    ELSE [min_price |-> result.min_price, max_price |-> result.max_price,
          avg_price |-> result.market_price,
          product_count |-> result.sample_count,
          search_url |-> result.search_url, scraped_at |-> result.scraped_at]

(***************************************************************************)
(* user_agent.py: its string literals, as sequences of characters.         *)
(***************************************************************************)
\* the words the patterns and the 'in' tests look for; every one of them is
\* compared ignoring case, so they are written lowered
Tok ==
    [ android |-> <<"a", "n", "d", "r", "o", "i", "d">>,
      build_slash |-> <<"b", "u", "i", "l", "d", "/">>,
      build |-> <<"b", "u", "i", "l", "d">>,
      miui |-> <<"m", "i", "u", "i">>,
      wv |-> <<"w", "v", ";">>,
      iphone |-> <<"i", "p", "h", "o", "n", "e">>,
      ipad |-> <<"i", "p", "a", "d">>,
      ipod |-> <<"i", "p", "o", "d">>,
      windows |-> <<"w", "i", "n", "d", "o", "w", "s">>,
      macintosh |-> <<"m", "a", "c", "i", "n", "t", "o", "s", "h">>,
      linux |-> <<"l", "i", "n", "u", "x">>,
      nt |-> <<"n", "t">>,
      os |-> <<"o", "s">>,
      mac_os_x |-> <<"m", "a", "c", " ", "o", "s", " ", "x">>,
      miuibrowser |-> <<"m", "i", "u", "i", "b", "r", "o", "w", "s", "e", "r">>,
      edg |-> <<"e", "d", "g", "/">>,
      chrome |-> <<"c", "h", "r", "o", "m", "e">>,
      safari |-> <<"s", "a", "f", "a", "r", "i">>,
      firefox |-> <<"f", "i", "r", "e", "f", "o", "x">>,
      opera |-> <<"o", "p", "e", "r", "a">>,
      opr |-> <<"o", "p", "r", "/">> ]

\* the values the parser returns
Name ==
    [ Unknown |-> <<"U", "n", "k", "n", "o", "w", "n">>,
      Android_Device |-> <<"A", "n", "d", "r", "o", "i", "d", " ", "D", "e", "v", "i", "c", "e">>,
      Linux_Device |-> <<"L", "i", "n", "u", "x", " ", "D", "e", "v", "i", "c", "e">>,
      Windows_PC |-> <<"W", "i", "n", "d", "o", "w", "s", " ", "P", "C">>,
      Windows_ |-> <<"W", "i", "n", "d", "o", "w", "s", " ">>,
      MacBook_iMac |-> <<"M", "a", "c", "B", "o", "o", "k", "/", "i", "M", "a", "c">>,
      iPhone |-> <<"i", "P", "h", "o", "n", "e">>,
      K |-> <<"K">>,
      MIUI_Browser |-> <<"M", "I", "U", "I", " ", "B", "r", "o", "w", "s", "e", "r">>,
      Edge |-> <<"E", "d", "g", "e">>,
      Chrome |-> <<"C", "h", "r", "o", "m", "e">>,
      Firefox |-> <<"F", "i", "r", "e", "f", "o", "x">>,
      Safari |-> <<"S", "a", "f", "a", "r", "i">>,
      Opera |-> <<"O", "p", "e", "r", "a">> ]

\* _parse_windows: the windows_versions dict
windows_versions ==
    <<"1", "0", ".", "0">> :> <<"W", "i", "n", "d", "o", "w", "s", " ", "1", "0", "/", "1", "1">>
    @@ <<"6", ".", "3">> :> <<"W", "i", "n", "d", "o", "w", "s", " ", "8", ".", "1">>
    @@ <<"6", ".", "2">> :> <<"W", "i", "n", "d", "o", "w", "s", " ", "8">>
    @@ <<"6", ".", "1">> :> <<"W", "i", "n", "d", "o", "w", "s", " ", "7">>
    @@ <<"6", ".", "0">> :> <<"W", "i", "n", "d", "o", "w", "s", " ", "V", "i", "s", "t", "a">>
    @@ <<"5", ".", "1">> :> <<"W", "i", "n", "d", "o", "w", "s", " ", "X", "P">>

(***************************************************************************)
(* user_agent.py: the compiled patterns.  Every pattern is IGNORECASE, so   *)
(* literals are compared with the lowered string l == ToLower(s); groups    *)
(* are cut out of the string s as given.                                    *)
(***************************************************************************)
NoMatch == [ok |-> FALSE, text |-> <<>>]

\* l[i..] starts with the literal lit
MatchAt(l, i, lit) ==
    /\ i >= 1
    /\ i + Len(lit) - 1 <= Len(l)
    /\ SubSeq(l, i, i + Len(lit) - 1) = lit

\* 'lit' in l
Contains(l, lit) == \E i \in 1..(Len(l) - Len(lit) + 1) : MatchAt(l, i, lit)

\* positions at which lit occurs in l
Occurrences(l, lit) == {i \in 1..(Len(l) - Len(lit) + 1) : MatchAt(l, i, lit)}

\* a greedy class*: the first position from i whose character is outside chars
SkipClass(s, i, chars) ==
    CHOOSE j \in i..(Len(s) + 1) :
        /\ \A k \in i..(j - 1) : s[k] \in chars
        /\ j = Len(s) + 1 \/ s[j] \notin chars

SetMin(S) == CHOOSE x \in S : \A y \in S : x <= y
SetMax(S) == CHOOSE x \in S : \A y \in S : x >= y

\* Android\s*[\d.]+;  matched at i: the position after the ';', or 0
AndroidHead(l, i) ==
    IF ~MatchAt(l, i, Tok.android) THEN 0
    ELSE LET b == SkipClass(l, i + 7, SpaceChars)
             c == SkipClass(l, b, Digits \cup {"."})
         IN  IF c > b /\ c <= Len(l) /\ l[c] = ";" THEN c + 1 ELSE 0

\* ANDROID_BUILD_PATTERN from the head at p:  \s*([^)]+?)\s*Build/
\* the first \s* gives back characters only when nothing else matches; the
\* group is the shortest that lets the rest match
BuildGroupAt(s, l, p) ==
    LET w == SkipClass(l, p, SpaceChars)
        pairs == {x \in (p..w) \X (p..Len(s)) :
                     /\ x[1] <= x[2]
                     /\ \A k \in x[1]..x[2] : s[k] # ")"
                     /\ MatchAt(l, SkipClass(l, x[2] + 1, SpaceChars),
                                Tok.build_slash)}
    IN  IF pairs = {} THEN NoMatch
        ELSE LET g == SetMax({x[1] : x \in pairs})
                 e == SetMin({x[2] : x \in {y \in pairs : y[1] = g}})
             IN  [ok |-> TRUE, text |-> SubSeq(s, g, e)]

\* ([A-Za-z0-9][A-Za-z0-9_\-\s]+?) from g: the positions the group can end at
ModelEnds(s, g) ==
    LET AlNum == UpperChars \cup LowerChars \cup Digits
    IN  {e \in (g + 1)..Len(s) :
            /\ s[g] \in AlNum
            /\ \A k \in (g + 1)..e : s[k] \in AlNum \cup {"_", "-"} \cup SpaceChars}

\* ANDROID_PAREN_PATTERN from the head at p:  \s*(model)(?:\s*\)|;)
ParenGroupAt(s, l, p) ==
    LET g == SkipClass(l, p, SpaceChars)
        Closed(e) ==
            \/ LET q == SkipClass(l, e + 1, SpaceChars)
               IN  q <= Len(l) /\ l[q] = ")"
            \/ e + 1 <= Len(l) /\ l[e + 1] = ";"
        ends == IF g <= Len(s) THEN {e \in ModelEnds(s, g) : Closed(e)} ELSE {}
    IN  IF ends = {} THEN NoMatch
        ELSE [ok |-> TRUE, text |-> SubSeq(s, g, SetMin(ends))]

\* ANDROID_MIUI_PATTERN from the head at p:  \s*(?:wv;\s*)?(model)\s*MIUI
MiuiGroupAt(s, l, p) ==
    LET g0 == SkipClass(l, p, SpaceChars)
        g1 == SkipClass(l, g0 + 3, SpaceChars)
        Skin(e) == MatchAt(l, SkipClass(l, e + 1, SpaceChars), Tok.miui)
        withWv == IF MatchAt(l, g0, Tok.wv) /\ g1 <= Len(s)
                  THEN {e \in ModelEnds(s, g1) : Skin(e)} ELSE {}
        plain == IF g0 <= Len(s) THEN {e \in ModelEnds(s, g0) : Skin(e)} ELSE {}
    IN  IF withWv # {}
        THEN [ok |-> TRUE, text |-> SubSeq(s, g1, SetMin(withWv))]
        ELSE IF plain # {}
        THEN [ok |-> TRUE, text |-> SubSeq(s, g0, SetMin(plain))]
        ELSE NoMatch

\* pattern.search(s): the match at the leftmost position that has one
SearchAndroid(s, pattern) ==
    LET l == ToLower(s)
        GroupAt(p) ==
            IF pattern = "ANDROID_BUILD_PATTERN" THEN BuildGroupAt(s, l, p)
            ELSE IF pattern = "ANDROID_PAREN_PATTERN" THEN ParenGroupAt(s, l, p)
            ELSE MiuiGroupAt(s, l, p)
        \* what the pattern gives at each position that has the head
        tries == {<<i, GroupAt(AndroidHead(l, i))>> :
                     i \in {j \in Occurrences(l, Tok.android) :
                               AndroidHead(l, j) # 0}}
        Leftmost(found) ==
            IF found = {} THEN NoMatch
            ELSE (CHOOSE x \in found : \A y \in found : x[1] <= y[1])[2]
    IN  Leftmost({x \in tries : x[2].ok})

\* ANDROID_VERSION_PATTERN.search:  Android\s*([\d.]+)
AndroidVersion(s) ==
    LET l == ToLower(s)
        Ver(i) == LET b == SkipClass(l, i + 7, SpaceChars)
                  IN  SubSeq(s, b, SkipClass(l, b, Digits \cup {"."}) - 1)
        starts == {i \in Occurrences(l, Tok.android) : Ver(i) # <<>>}
    IN  IF starts = {} THEN NoText ELSE Ver(SetMin(starts))

(***************************************************************************)
(* user_agent.py: UserAgentParser.                                         *)
(***************************************************************************)
ParsedDevice(model_code, os_type, os_version, browser, raw_user_agent) ==
    [model_code |-> model_code, os_type |-> os_type, os_version |-> os_version,
     browser |-> browser, raw_user_agent |-> raw_user_agent]

\* variant: Firefox is looked for before Chrome
DetectBrowserFirefoxFirst(user_agent) ==
    LET ua_lower == ToLower(user_agent)
    IN  IF Contains(ua_lower, Tok.miuibrowser) THEN Name.MIUI_Browser
        ELSE IF Contains(ua_lower, Tok.edg) THEN Name.Edge
        ELSE IF Contains(ua_lower, Tok.firefox) THEN Name.Firefox
        ELSE IF Contains(ua_lower, Tok.chrome) /\ Contains(ua_lower, Tok.safari)
             THEN Name.Chrome
        ELSE IF Contains(ua_lower, Tok.safari) /\ ~Contains(ua_lower, Tok.chrome)
             THEN Name.Safari
        ELSE IF Contains(ua_lower, Tok.opera) \/ Contains(ua_lower, Tok.opr)
             THEN Name.Opera
        ELSE Name.Unknown

\* _detect_browser
DetectBrowser(user_agent) ==
    LET ua_lower == ToLower(user_agent)
    IN  IF Contains(ua_lower, Tok.miuibrowser) THEN Name.MIUI_Browser
        ELSE IF Contains(ua_lower, Tok.edg) THEN Name.Edge
        ELSE IF Contains(ua_lower, Tok.chrome) /\ Contains(ua_lower, Tok.safari)
             THEN Name.Chrome
        ELSE IF Contains(ua_lower, Tok.firefox) THEN Name.Firefox
        ELSE IF Contains(ua_lower, Tok.safari) /\ ~Contains(ua_lower, Tok.chrome)
             THEN Name.Safari
        ELSE IF Contains(ua_lower, Tok.opera) \/ Contains(ua_lower, Tok.opr)
             THEN Name.Opera
        ELSE Name.Unknown

\* _parse_android, lines 110-139: the value of model_code before the return
AndroidModel(user_agent) ==
    LET \* lines 116-128: the pattern cascade
        Found(m1, m2, m3) ==
            IF m1.ok THEN Strip(m1.text)
            ELSE IF m2.ok THEN Strip(m2.text)
            ELSE IF m3.ok THEN Strip(m3.text)
            ELSE Name.Android_Device
        \* the start of the whitespace run that ends before position j
        RunStart(m, j) ==
            SetMin({k \in 1..j : \A i \in k..(j - 1) : m[i] \in SpaceChars})
        \* re.sub(r'\s*Build$', '', m): m was stripped, so $ is its end
        SubBuild(m) ==
            IF ~MatchAt(ToLower(m), Len(m) - 4, Tok.build) THEN m
            ELSE SubSeq(m, 1, RunStart(m, Len(m) - 4) - 1)
        \* re.sub(r'\s*MIUI.*$', '', m): '.' stops at a newline
        FromMiui(m, hits) ==
            IF hits = {} THEN m ELSE SubSeq(m, 1, RunStart(m, SetMin(hits)) - 1)
        SubMiui(m) ==
            FromMiui(m, {j \in Occurrences(ToLower(m), Tok.miui) :
                            \A i \in (j + 4)..Len(m) : m[i] # "\n"})
        \* re.sub(r'^wv;\s*', '', m)
        SubWv(m) ==
            IF MatchAt(ToLower(m), 1, Tok.wv)
            THEN SubSeq(m, SkipClass(ToLower(m), 4, SpaceChars), Len(m))
            ELSE m
        \* lines 138-139: the privacy placeholder
        Checked(cleaned) ==
            IF Strip(cleaned) = Name.K THEN Name.Android_Device ELSE cleaned
        \* lines 131-139
        Cleanup(model_code) ==
            IF model_code # <<>> /\ model_code # Name.Android_Device
            THEN Checked(SubWv(SubMiui(SubBuild(model_code))))
            ELSE model_code
    IN  Cleanup(Found(SearchAndroid(user_agent, "ANDROID_BUILD_PATTERN"),
                      SearchAndroid(user_agent, "ANDROID_PAREN_PATTERN"),
                      SearchAndroid(user_agent, "ANDROID_MIUI_PATTERN")))

\* variant: the cleaned token is returned even when nothing is left of it
ParseAndroidNoDefault(user_agent) ==
    ParsedDevice(Strip(AndroidModel(user_agent)), "android",
                 AndroidVersion(user_agent), DetectBrowser(user_agent),
                 user_agent)

\* _parse_android
ParseAndroid(user_agent) ==
    LET \* line 150
        Returned(model_code) ==
            IF model_code # <<>> THEN Strip(model_code)
            ELSE Name.Android_Device
    IN  ParsedDevice(Returned(AndroidModel(user_agent)),
                     "android", AndroidVersion(user_agent),
                     DetectBrowser(user_agent), user_agent)

\* IOS_PATTERN matches: <<position, length>> of every (iPhone|iPad|iPod)
IosHits(l) ==
    {<<x[1], Len(x[2])>> :
        x \in {y \in (1..Len(l)) \X {Tok.iphone, Tok.ipad, Tok.ipod} :
                  MatchAt(l, y[1], y[2])}}

\* str.replace('_', '.')
Dotted(s) == [i \in 1..Len(s) |-> IF s[i] = "_" THEN "." ELSE s[i]]

\* IOS_VERSION_PATTERN.search:  (?:iPhone|iPad|iPod).*?OS\s*([\d_]+)
IosVersion(s) ==
    LET l == ToLower(s)
        Ver(j) == LET b == SkipClass(l, j + 2, SpaceChars)
                  IN  SubSeq(s, b, SkipClass(l, b, Digits \cup {"_"}) - 1)
        \* positions of an "OS" that the lazy .*? can reach from position a
        Reach(a) == {j \in Occurrences(l, Tok.os) :
                        /\ j >= a
                        /\ \A k \in a..(j - 1) : s[k] # "\n"
                        /\ Ver(j) # <<>>}
        heads == {x \in IosHits(l) : Reach(x[1] + x[2]) # {}}
    IN  IF heads = {} THEN NoText
        ELSE LET i == SetMin({x[1] : x \in heads})
                 n == SetMin({x[2] : x \in {y \in heads : y[1] = i}})
             IN  Dotted(Ver(SetMin(Reach(i + n))))

\* _parse_ios
ParseIos(user_agent) ==
    LET l == ToLower(user_agent)
        hits == IosHits(l)
        i == SetMin({x[1] : x \in hits})
        n == SetMin({x[2] : x \in {y \in hits : y[1] = i}})
    IN  ParsedDevice(IF hits = {} THEN Name.iPhone
                     ELSE SubSeq(user_agent, i, i + n - 1),
                     "ios", IosVersion(user_agent), DetectBrowser(user_agent),
                     user_agent)

\* _parse_windows
ParseWindows(user_agent) ==
    LET l == ToLower(user_agent)
        \* WINDOWS_PATTERN.search:  Windows\s*(?:NT)?\s*([\d.]+)
        Ver(i) == LET a == SkipClass(l, i + 7, SpaceChars)
                      b == IF MatchAt(l, a, Tok.nt)
                           THEN SkipClass(l, a + 2, SpaceChars) ELSE a
                  IN  SubSeq(user_agent, b,
                             SkipClass(l, b, Digits \cup {"."}) - 1)
        starts == {i \in Occurrences(l, Tok.windows) : Ver(i) # <<>>}
        os_version == IF starts = {} THEN NoText ELSE Ver(SetMin(starts))
        \* windows_versions.get(os_version, ...)
        model_code == IF os_version \in DOMAIN windows_versions
                      THEN windows_versions[os_version]
                      ELSE IF os_version # NoText
                      THEN Name.Windows_ \o os_version
                      ELSE Name.Windows_PC
    IN  ParsedDevice(model_code, "windows", os_version,
                     DetectBrowser(user_agent), user_agent)

\* _parse_mac
ParseMac(user_agent) ==
    LET l == ToLower(user_agent)
        \* MAC_PATTERN.search:  Macintosh.*Mac OS X\s*([\d_]+)
        Ver(j) == LET b == SkipClass(l, j + 8, SpaceChars)
                  IN  SubSeq(user_agent, b,
                             SkipClass(l, b, Digits \cup {"_"}) - 1)
        \* positions of a "Mac OS X" that the greedy .* can reach from a
        Reach(a) == {j \in Occurrences(l, Tok.mac_os_x) :
                        /\ j >= a
                        /\ \A k \in a..(j - 1) : user_agent[k] # "\n"
                        /\ Ver(j) # <<>>}
        starts == {i \in Occurrences(l, Tok.macintosh) : Reach(i + 9) # {}}
        os_version == IF starts = {} THEN NoText
                      ELSE Dotted(Ver(SetMax(Reach(SetMin(starts) + 9))))
    IN  ParsedDevice(Name.MacBook_iMac, "macos", os_version,
                     DetectBrowser(user_agent), user_agent)

\* variant: the iOS markers are looked for before the Android marker
ParseIosFirst(user_agent) ==
    LET l == ToLower(user_agent)
    IN  IF user_agent = <<>>
        THEN ParsedDevice(Name.Unknown, "unknown", NoText, NoText, <<>>)
        ELSE IF IosHits(l) # {} THEN ParseIos(user_agent)
        ELSE IF Contains(l, Tok.android) THEN ParseAndroid(user_agent)
        ELSE IF Contains(l, Tok.windows) THEN ParseWindows(user_agent)
        ELSE IF Contains(l, Tok.macintosh) THEN ParseMac(user_agent)
        ELSE IF Contains(l, Tok.linux)
             THEN ParsedDevice(Name.Linux_Device, "linux", NoText, NoText,
                               user_agent)
        ELSE ParsedDevice(Name.Unknown, "other", NoText, NoText, user_agent)

\* variant: the empty string goes through the markers like any other
ParseNoEmptyCheck(user_agent) ==
    LET l == ToLower(user_agent)
    IN  IF Contains(l, Tok.android) THEN ParseAndroid(user_agent)
        ELSE IF IosHits(l) # {} THEN ParseIos(user_agent)
        ELSE IF Contains(l, Tok.windows) THEN ParseWindows(user_agent)
        ELSE IF Contains(l, Tok.macintosh) THEN ParseMac(user_agent)
        ELSE IF Contains(l, Tok.linux)
             THEN ParsedDevice(Name.Linux_Device, "linux", NoText, NoText,
                               user_agent)
        ELSE ParsedDevice(Name.Unknown, "other", NoText, NoText, user_agent)

\* parse; 'iphone' in ua_lower or 'ipad' in ua_lower or 'ipod' in ua_lower is
\* the same as IOS_PATTERN having a match
Parse(user_agent) ==
    LET l == ToLower(user_agent)
    IN  IF user_agent = <<>>
        THEN ParsedDevice(Name.Unknown, "unknown", NoText, NoText, <<>>)
        ELSE IF Contains(l, Tok.android) THEN ParseAndroid(user_agent)
        ELSE IF IosHits(l) # {} THEN ParseIos(user_agent)
        ELSE IF Contains(l, Tok.windows) THEN ParseWindows(user_agent)
        ELSE IF Contains(l, Tok.macintosh) THEN ParseMac(user_agent)
        ELSE IF Contains(l, Tok.linux)
             THEN ParsedDevice(Name.Linux_Device, "linux", NoText, NoText,
                               user_agent)
        ELSE ParsedDevice(Name.Unknown, "other", NoText, NoText, user_agent)

\* list(dict.fromkeys(codes)): first occurrences, in order
RECURSIVE FromKeys(_, _)
FromKeys(codes, seen) ==
    IF codes = <<>> THEN <<>>
    ELSE IF Head(codes) \in seen THEN FromKeys(Tail(codes), seen)
    ELSE <<Head(codes)>> \o FromKeys(Tail(codes), seen \cup {Head(codes)})

\* extract_model_codes
ExtractModelCodes(user_agent) ==
    LET Codes(m) ==
            IF m # <<>> /\ m \notin {Name.Unknown, Name.Android_Device, Name.K}
            THEN FromKeys(<<m>> \o (IF \E i \in 1..Len(m) : m[i] = " "
                                    THEN <<SelectSeq(m, LAMBDA c : c # " ")>>
                                    ELSE <<>>)
                               \o <<ToUpper(m), ToLower(m)>>, {})
            ELSE <<>>
    IN  Codes(Parse(user_agent).model_code)

(***************************************************************************)
(* device_db.py: DeviceDatabase.  A dict is a function on its keys.        *)
(***************************************************************************)
EmptyDict == [k \in {} |-> None]

\* d[k] = v
Put(d, k, v) == [x \in DOMAIN d \cup {k} |-> IF x = k THEN v ELSE d[x]]

DeviceInfo(brand, model_code, marketing_name, price_idr) ==
    [brand |-> brand, model_code |-> model_code,
     marketing_name |-> marketing_name, price_idr |-> price_idr]

\* _load_devices: a row is [Brand, Model_Code, Marketing_Name]; a cell the
\* reader left as None (NoText) makes .strip() raise, which ends the loading
RECURSIVE LoadDevices(_, _)
LoadDevices(rows, devices) ==
    IF rows = <<>> THEN devices
    ELSE LET row == Head(rows)
         IN  IF NoText \in {row.Brand, row.Model_Code, row.Marketing_Name}
             THEN devices
             ELSE LET brand == Strip(row.Brand)
                      model_code == Strip(row.Model_Code)
                      marketing_name == Strip(row.Marketing_Name)
                      info == DeviceInfo(brand, model_code,
                                         IF marketing_name # <<>>
                                         THEN marketing_name ELSE model_code, 0)
                  IN  IF model_code = <<>>
                      THEN LoadDevices(Tail(rows), devices)
                      ELSE LoadDevices(Tail(rows),
                               Put(Put(Put(devices, ToUpper(model_code), info),
                                       ToLower(model_code), info),
                                   model_code, info))

\* int(price_str.replace('.', '').replace(',', '').replace('Rp', '').strip()
\*     or 0); NoPrice stands for the ValueError of int()
ParsePriceIdr(price_str) ==
    LET \* str.replace(old, ''), left to right
        RECURSIVE RemoveAll(_, _)
        RemoveAll(s, old) ==
            IF s = <<>> THEN <<>>
            ELSE IF MatchAt(s, 1, old)
                 THEN RemoveAll(SubSeq(s, Len(old) + 1, Len(s)), old)
            ELSE <<Head(s)>> \o RemoveAll(Tail(s), old)
        DigitSeq == <<"0", "1", "2", "3", "4", "5", "6", "7", "8", "9">>
        \* int(s) for a string of decimal digits
        RECURSIVE ToInt(_)
        ToInt(s) ==
            IF s = <<>> THEN 0
            ELSE 10 * ToInt(SubSeq(s, 1, Len(s) - 1))
                 + (CHOOSE v \in 0..9 : DigitSeq[v + 1] = s[Len(s)])
        t == Strip(RemoveAll(RemoveAll(RemoveAll(price_str, <<".">>), <<",">>),
                             <<"R", "p">>))
    IN  IF t = <<>> THEN 0
        ELSE IF \A i \in 1..Len(t) : t[i] \in Digits THEN ToInt(t)
        ELSE NoPrice

\* _load_prices, the reading loop: [prices, ok]; a None cell or a price that
\* is no number raises, which ends the loading before the update loop
RECURSIVE ReadPrices(_, _)
ReadPrices(rows, prices) ==
    IF rows = <<>> THEN [prices |-> prices, ok |-> TRUE]
    ELSE LET row == Head(rows)
         IN  IF NoText \in {row.Marketing_Name, row.Price_IDR}
                \/ ParsePriceIdr(Strip(row.Price_IDR)) = NoPrice
             THEN [prices |-> prices, ok |-> FALSE]
             ELSE LET marketing_name == Strip(row.Marketing_Name)
                      price == ParsePriceIdr(Strip(row.Price_IDR))
                  IN  ReadPrices(Tail(rows),
                          IF marketing_name # <<>>
                          THEN Put(prices, ToLower(marketing_name), price)
                          ELSE prices)

\* the keys of self.devices in the order _load_devices inserted them, the
\* order in which dict.items() yields them; a key set again keeps its place
RECURSIVE KeyOrder(_, _)
KeyOrder(rows, keys) ==
    IF rows = <<>> THEN keys
    ELSE LET row == Head(rows)
             AddKey(ks, k) ==
                 IF \E i \in 1..Len(ks) : ks[i] = k THEN ks ELSE Append(ks, k)
             Added(model_code) ==
                 IF model_code = <<>> THEN keys
                 ELSE AddKey(AddKey(AddKey(keys, ToUpper(model_code)),
                                    ToLower(model_code)), model_code)
         IN  IF NoText \in {row.Brand, row.Model_Code, row.Marketing_Name}
             THEN keys
             ELSE KeyOrder(Tail(rows), Added(Strip(row.Model_Code)))

\* __init__: the object after construction from the two tables
DeviceDatabase(device_rows, price_rows) ==
    LET loaded == LoadDevices(device_rows, EmptyDict)
        read == ReadPrices(price_rows, EmptyDict)
        \* _load_prices, the update loop over self.devices
        updated == [k \in DOMAIN loaded |->
                       IF ToLower(loaded[k].marketing_name) \in DOMAIN read.prices
                       THEN [loaded[k] EXCEPT !.price_idr =
                                read.prices[ToLower(loaded[k].marketing_name)]]
                       ELSE loaded[k]]
    IN  [devices |-> IF read.ok THEN updated ELSE loaded,
         keys |-> KeyOrder(device_rows, <<>>),
         prices |-> read.prices]

\* variant: a token not in the catalog falls back to an entry whose key
\* starts with the same character
FindDeviceApproximate(devices, model_code) ==
    IF model_code = <<>> THEN None
    ELSE IF model_code \in DOMAIN devices THEN devices[model_code]
    ELSE IF ToUpper(model_code) \in DOMAIN devices
         THEN devices[ToUpper(model_code)]
    ELSE IF ToLower(model_code) \in DOMAIN devices
         THEN devices[ToLower(model_code)]
    ELSE IF \E k \in DOMAIN devices : ToLower(<<k[1]>>) = ToLower(<<model_code[1]>>)
         THEN devices[CHOOSE k \in DOMAIN devices :
                         ToLower(<<k[1]>>) = ToLower(<<model_code[1]>>)]
    ELSE None

\* find_device
FindDevice(devices, model_code) ==
    IF model_code = <<>> THEN None
    ELSE IF model_code \in DOMAIN devices THEN devices[model_code]
    ELSE IF ToUpper(model_code) \in DOMAIN devices
         THEN devices[ToUpper(model_code)]
    ELSE IF ToLower(model_code) \in DOMAIN devices
         THEN devices[ToLower(model_code)]
    ELSE None

\* difflib.SequenceMatcher(None, a, b).ratio() as the fraction <<2 * M, T>>:
\* M characters in the matching blocks, T = len(a) + len(b).  The blocks are
\* the longest common run (the one starting earliest in a, then earliest in
\* b) and, recursively, the blocks to its left and to its right.  Strings of
\* fewer than 200 characters have no junk.
SequenceMatcherRatio(a, b) ==
    LET \* length of the common run from a[i], b[j] inside a[..ahi-1], b[..bhi-1]
        RECURSIVE RunLen(_, _, _, _)
        RunLen(i, j, ahi, bhi) ==
            IF i < ahi /\ j < bhi /\ a[i] = b[j]
            THEN 1 + RunLen(i + 1, j + 1, ahi, bhi)
            ELSE 0
        \* get_matching_blocks on a[alo..ahi-1], b[blo..bhi-1]
        RECURSIVE Matches(_, _, _, _)
        Matches(alo, ahi, blo, bhi) ==
            LET Around(i, j, k) ==
                    k + Matches(alo, i, blo, j) + Matches(i + k, ahi, j + k, bhi)
                InA(i, k) ==
                    Around(i,
                           SetMin({j \in blo..(bhi - 1) : RunLen(i, j, ahi, bhi) = k}),
                           k)
                Longest(k) ==
                    IF k = 0 THEN 0
                    ELSE InA(SetMin({i \in alo..(ahi - 1) :
                                       \E j \in blo..(bhi - 1) :
                                           RunLen(i, j, ahi, bhi) = k}), k)
            IN  IF alo >= ahi \/ blo >= bhi THEN 0
                ELSE Longest(SetMax({RunLen(x[1], x[2], ahi, bhi) :
                                       x \in (alo..(ahi - 1)) \X (blo..(bhi - 1))}))
    IN  IF Len(a) + Len(b) = 0 THEN <<1, 1>>
        ELSE <<2 * Matches(1, Len(a) + 1, 1, Len(b) + 1), Len(a) + Len(b)>>

\* search_device; scores and the threshold are fractions <<n, d>>, d > 0
SearchDevice(database, query, threshold) ==
    LET Less(x, y) == x[1] * y[2] < y[1] * x[2]
        MaxScore(x, y) == IF Less(x, y) THEN y ELSE x
        query_lower == ToLower(query)
        \* lines 152-169: the loop over self.devices.items()
        RECURSIVE Scan(_, _, _, _)
        Scan(keys, best_match, best_score, seen_devices) ==
            IF keys = <<>> THEN best_match
            ELSE LET Scored(device, score) ==
                         IF Less(best_score, score) /\ ~Less(score, threshold)
                         THEN Scan(Tail(keys), device, score,
                                   seen_devices \cup {<<device.brand, device.model_code>>})
                         ELSE Scan(Tail(keys), best_match, best_score,
                                   seen_devices \cup {<<device.brand, device.model_code>>})
                     Visit(model_code, device) ==
                         IF <<device.brand, device.model_code>> \in seen_devices
                         THEN Scan(Tail(keys), best_match, best_score, seen_devices)
                         ELSE Scored(device,
                                  MaxScore(SequenceMatcherRatio(query_lower,
                                                                ToLower(model_code)),
                                           SequenceMatcherRatio(query_lower,
                                               ToLower(device.marketing_name))))
                 IN  Visit(Head(keys), database.devices[Head(keys)])
    IN  IF query = <<>> THEN None
        ELSE IF FindDevice(database.devices, query) # None
             THEN FindDevice(database.devices, query)
        ELSE Scan(database.keys, None, <<0, 1>>, {})

(***************************************************************************)
(* routes.py, login STEP 3 .. STEP 5: from the request headers to the      *)
(* catalog entry.                                                          *)
(***************************************************************************)
\* str.strip('"'): what lies between the first and the last other character
StripQuotes(s) ==
    LET inner == {i \in 1..Len(s) : s[i] # "\""}
    IN  IF inner = {} THEN <<>> ELSE SubSeq(s, SetMin(inner), SetMax(inner))

\* lines 177-178: the Sec-CH-UA-Model override
ApplyHint(p, hint) ==
    IF hint # <<>> /\ StripQuotes(hint) # <<>>
    THEN [p EXCEPT !.model_code = StripQuotes(hint)]
    ELSE p

\* variant: the tokens extracted from the User-Agent come first
ModelCodesExtractedFirst(p, ua) ==
    ExtractModelCodes(ua)
        \o (IF p.model_code # <<>> THEN <<p.model_code>> ELSE <<>>)

\* lines 190-191: the candidate list
ModelCodes(p, ua) ==
    (IF p.model_code # <<>> THEN <<p.model_code>> ELSE <<>>)
        \o ExtractModelCodes(ua)

\* variant: the privacy placeholder is handed on
UsableKeepsK(code) == code # <<>> /\ code # Name.Android_Device

\* line 196: the candidates the loop hands to find_device
Usable(code) == code # <<>> /\ code # Name.K /\ code # Name.Android_Device

\* variant: when no candidate matches, an entry of the catalog is taken
RECURSIVE FindLoopFallsBack(_, _, _)
FindLoopFallsBack(devices, model_codes, lookups) ==
    IF model_codes = <<>>
    THEN [lookups |-> lookups,
          device |-> IF DOMAIN devices = {} THEN None
                     ELSE devices[CHOOSE k \in DOMAIN devices : TRUE]]
    ELSE LET code == Head(model_codes)
         IN  IF ~Usable(code)
             THEN FindLoopFallsBack(devices, Tail(model_codes), lookups)
             ELSE IF FindDevice(devices, code) # None
                  THEN [lookups |-> Append(lookups, code),
                        device |-> FindDevice(devices, code)]
             ELSE FindLoopFallsBack(devices, Tail(model_codes),
                                    Append(lookups, code))

\* lines 194-200: [lookups, device], lookups being the find_device arguments
RECURSIVE FindLoop(_, _, _)
FindLoop(devices, model_codes, lookups) ==
    IF model_codes = <<>> THEN [lookups |-> lookups, device |-> None]
    ELSE LET code == Head(model_codes)
         IN  IF ~Usable(code) THEN FindLoop(devices, Tail(model_codes), lookups)
             ELSE IF FindDevice(devices, code) # None
                  THEN [lookups |-> Append(lookups, code),
                        device |-> FindDevice(devices, code)]
             ELSE FindLoop(devices, Tail(model_codes), Append(lookups, code))

(***************************************************************************)
(* Requests.                                                               *)
(***************************************************************************)
\* device names sent to /api/scrape-price/<device_name>
ApiNames == { <<"l", "g", " ", " ", "g", "8", "+">>,
              <<" ", "G", "8", " ">> }

\* routes.py line 63: device_db = DeviceDatabase(config.DEVICES_CSV,
\* config.PRICES_CSV), here started with two small tables
device_db ==
    DeviceDatabase(
        << [Brand |-> <<"L", "G">>, Model_Code |-> <<"L", "M", "-", "G", "8">>,
            Marketing_Name |-> <<"G", "8">>],
           [Brand |-> <<"L", "G">>, Model_Code |-> <<"L", "M", "-", "V", "6">>,
            Marketing_Name |-> <<"V", "6", "0">>] >>,
        << [Marketing_Name |-> <<"G", "8">>,
            Price_IDR |-> <<"9", ".", "0", "0", "0", ".", "0", "0", "0">>] >>)

\* catalog entries a login can match (DeviceInfo rows)
Catalog == {device_db.devices[k] : k \in DOMAIN device_db.devices}

\* the headers of a login: a User-Agent naming a catalog model, one hiding
\* the model behind the placeholder with the model in the hint header, and
\* one of no known platform
LoginRequests ==
    { [user_agent |-> <<"A", "n", "d", "r", "o", "i", "d", " ", "9", ";", " ", "L", "M", "-", "G", "8", ")">>,
       ch_model |-> <<>>],
      [user_agent |-> <<"A", "n", "d", "r", "o", "i", "d", " ", "1", "0", ";", " ", "K", ")">>,
       ch_model |-> <<"\"", "L", "M", "-", "V", "6", "\"">>],
      [user_agent |-> <<"c", "u", "r", "l">>, ch_model |-> <<>>] }

\* login STEP 3 .. STEP 5 for each of them
Identified ==
    [r \in LoginRequests |->
        LET Result(p, codes, loop) ==
                [parsed |-> p, model_codes |-> codes, lookups |-> loop.lookups,
                 device |-> loop.device]
            \* lines 194-200
            Looked(p, codes) ==
                Result(p, codes, FindLoop(device_db.devices, codes, <<>>))
            \* lines 190-191
            Listed(p) == Looked(p, ModelCodes(p, r.user_agent))
        IN  \* lines 174-178
            Listed(ApplyHint(Parse(r.user_agent), r.ch_model))]

SearchQuery(device) == device.brand \o <<" ">> \o device.marketing_name

Queries == {NormalizeQuery(n) : n \in ApiNames}
           \cup {NormalizeQuery(SearchQuery(d)) : d \in Catalog}

\* time that can pass between two requests
Delays == {1, CACHE_DURATION - 1, CACHE_DURATION}

\* how many requests of each kind the history holds, for the bounds
CallsMade == Cardinality({i \in 1..Len(history) : history[i].via # "clear"})

ClearsMade == Cardinality({i \in 1..Len(history) : history[i].via = "clear"})

CallRecord(via, name, t0, lr0, g, logged) ==
    [via |-> via, name |-> name, t0 |-> t0, stamp_before |-> lr0,
     stamp |-> g.last_request, query |-> g.query, hit |-> g.hit,
     fetched |-> g.fetched, attempts |-> g.attempts,
     fetch_start |-> g.fetch_start, outcome |-> g.outcome, ret |-> g.ret,
     raised |-> g.raised, logged |-> logged]

\* the fields of a call that never reaches the scraper
NoCall(c, lr, t) ==
    [cache |-> c, last_request |-> lr, now |-> t, ret |-> None,
     raised |-> FALSE, query |-> NoText, hit |-> FALSE, fetched |-> FALSE,
     attempts |-> 0, fetch_start |-> NoTime, outcome |-> NoOutcome]

SeqInit ==
    /\ cache = [q \in Queries |-> None]
    /\ last_request = NoTime
    /\ now = 0
    /\ history = <<>>
    /\ logs = <<>>
    /\ idle = FALSE

EstIdle ==
    /\ matches = <<>>
    /\ raw = <<>>
    /\ clean = <<>>
    /\ est = None
    /\ src = "none"
    /\ pcE = "off"

ConIdle ==
    /\ tpc = <<>>
    /\ tloc = <<>>
    /\ tcalls = <<>>
    /\ fetchStarts = <<>>
    /\ ticks = 0

IdIdle ==
    /\ req_ua = <<>>
    /\ req_hint = <<>>
    /\ req_parsed = None
    /\ req_codes = <<>>
    /\ req_lookups = <<>>
    /\ matched = None
    /\ pcI = "off"

DbIdle ==
    /\ csv_devices = <<>>
    /\ csv_prices = <<>>
    /\ db = None
    /\ asked = <<>>
    /\ asked_threshold = <<0, 1>>
    /\ answer = None
    /\ pcD = "off"

Init == EstIdle /\ SeqInit /\ ConIdle /\ IdIdle /\ DbIdle

\* the outcome matters only to a call that fetches
WillFetch(c, t, name) ==
    /\ name # <<>>
    /\ Len(Strip(name)) >= 3
    /\ GetFromCache(c, NormalizeQuery(name), t).result = None

OutcomesFor(c, t, name) == IF WillFetch(c, t, name) THEN Outcomes ELSE {NoOutcome}

\* api_scrape_price: GET /api/scrape-price/<device_name>
ApiScrapePrice(name, outcome) ==
    /\ CallsMade < MaxCalls
    /\ outcome \in OutcomesFor(cache, now, name)
    /\ LET g == GetMarketPrice(cache, last_request, now, name, outcome)
       IN  /\ cache' = g.cache
           /\ last_request' = g.last_request
           /\ now' = g.now
           /\ history' = Append(history,
                  CallRecord("api", name, now, last_request, g, FALSE))
    /\ idle' = FALSE
    /\ UNCHANGED <<logs>>
    /\ UNCHANGED <<estVars, conVars, idVars, dbVars>>

\* login (POST): STEP 3 .. STEP 5 identify the device, STEP 6 scrapes the
\* price of a matched device, STEP 7 writes the log row
Login(req, outcome) ==
    /\ CallsMade < MaxCalls
    /\ LET Served(id) ==
           LET dev    == id.device
               scrape == dev # None /\ dev.marketing_name # <<>>
               name   == IF scrape THEN SearchQuery(dev) ELSE <<>>
           IN
           /\ outcome \in (IF scrape THEN OutcomesFor(cache, now, name) ELSE {NoOutcome})
           /\ LET g == IF scrape
                       THEN GetMarketPrice(cache, last_request, now, name, outcome)
                       ELSE NoCall(cache, last_request, now)
                  scraped == ScrapedPrice(g.ret)
                  row == [ user_agent |->
                               IF req.ch_model # <<>>
                               THEN req.user_agent \o <<" [CH-Model: ">>
                                        \o req.ch_model \o <<"]">>
                               ELSE req.user_agent,
                           model_code |-> id.parsed.model_code,
                           brand |-> IF dev # None THEN dev.brand ELSE NoText,
                           marketing_name |-> IF dev # None THEN dev.marketing_name
                                              ELSE id.parsed.model_code,
                           price_idr |-> IF dev # None THEN dev.price_idr ELSE 0,
                           os_type |-> id.parsed.os_type,
                           os_version |-> id.parsed.os_version,
                           browser |-> id.parsed.browser,
                           scraped_price_min |-> IF scraped # None
                                                 THEN scraped.min_price ELSE NoPrice,
                           scraped_price_max |-> IF scraped # None
                                                 THEN scraped.max_price ELSE NoPrice,
                           price_source |->
                               IF scraped # None THEN "tokopedia"
                               ELSE IF scrape /\ dev.price_idr > 0 THEN "database"
                               ELSE "none",
                           tokopedia_url |->
                               IF scraped # None THEN scraped.search_url
                               ELSE IF scrape
                                    THEN BuildSmartUrl(NormalizeQuery(name))
                               ELSE NoText ]
              IN  /\ cache' = g.cache
                  /\ last_request' = g.last_request
                  /\ now' = g.now
                  /\ logs' = IF g.raised THEN logs ELSE Append(logs, row)
                  /\ history' = Append(history,
                         CallRecord("login", name, now, last_request, g, ~g.raised))
       IN  Served(Identified[req])
    /\ idle' = FALSE
    /\ UNCHANGED <<estVars, conVars, idVars, dbVars>>

\* variant: clearing the cache also forgets the time of the last fetch
ClearCacheResetsLimiter ==
    /\ ClearsMade < MaxClears
    /\ cache' = [q \in Queries |-> None]
    /\ last_request' = NoTime
    /\ history' = Append(history,
           [via |-> "clear", t0 |-> now,
            count |-> Cardinality({q \in Queries : cache[q] # None})])
    /\ idle' = FALSE
    /\ UNCHANGED <<now, logs>>
    /\ UNCHANGED <<estVars, conVars, idVars, dbVars>>

\* api_clear_scraper_cache -> clear_cache
ClearCache ==
    /\ ClearsMade < MaxClears
    /\ cache' = [q \in Queries |-> None]
    /\ history' = Append(history,
           [via |-> "clear", t0 |-> now,
            count |-> Cardinality({q \in Queries : cache[q] # None})])
    /\ idle' = FALSE
    /\ UNCHANGED <<last_request, now, logs>>
    /\ UNCHANGED <<estVars, conVars, idVars, dbVars>>

\* time passes between two requests
Tick(d) ==
    /\ ~idle
    /\ (CallsMade < MaxCalls \/ ClearsMade < MaxClears)
    /\ now' = now + d
    /\ idle' = TRUE
    /\ UNCHANGED <<cache, last_request, history, logs>>
    /\ UNCHANGED <<estVars, conVars, idVars, dbVars>>

Next ==
    \/ \E name \in ApiNames, o \in Outcomes \cup {NoOutcome} : ApiScrapePrice(name, o)
    \/ \E r \in LoginRequests, o \in Outcomes \cup {NoOutcome} : Login(r, o)
    \/ ClearCache
    \/ \E d \in Delays : Tick(d)

Spec == Init /\ [][Next]_vars

(***************************************************************************)
(* SpecEst: page contents drawn from a bounded family.                     *)
(***************************************************************************)
\* values a page can show: one below the band, the rest inside it
Values == {15000, 500400, 500500, 4500000, 8400000, 8500000, 8600000,
           8700000, 11000000}

RECURSIVE NonDecSeqs(_)
NonDecSeqs(k) ==
    IF k = 0 THEN {<<>>}
    ELSE LET shorter == NonDecSeqs(k - 1)
             longest == {s \in shorter : Len(s) = k - 1}
         IN  shorter \cup
             {Append(x[1], x[2]) :
                 x \in {y \in longest \X Values :
                           y[1] = <<>> \/ y[1][Len(y[1])] <= y[2]}}

Orders == {"asc", "desc", "rot"}

Arrange(s, o) ==
    IF o = "asc" \/ Len(s) < 2 THEN s
    ELSE IF o = "desc" THEN Reverse(s)
    ELSE Tail(s) \o <<Head(s)>>

PageSamples == {Arrange(s, o) : s \in NonDecSeqs(MaxRaw), o \in Orders}

\* a page with many distinct in-band prices, and its first k prices
LongPage == [i \in 1..MaxLong |-> 8000000 + 100500 * i]

LongSamples ==
    {Arrange(SubSeq(LongPage, 1, k), o) : k \in (MaxRaw + 1)..MaxLong, o \in Orders}

EstInit ==
    /\ matches \in PageSamples \cup LongSamples
    /\ raw = <<>>
    /\ clean = <<>>
    /\ est = None
    /\ src = "none"
    /\ pcE = "page"
    /\ SeqInit
    /\ ConIdle
    /\ IdIdle
    /\ DbIdle

\* _fetch_prices succeeded: raw_prices is what _extract_prices_from_html returns
ExtractStep ==
    /\ pcE = "page"
    /\ raw' = ExtractPrices(matches)
    /\ src' = "fetch"
    /\ pcE' = "raw"
    /\ UNCHANGED <<matches, clean, est>>
    /\ UNCHANGED <<scrVars, seqVars, conVars, idVars, dbVars>>

\* the cleaning and median functions called on a caller-supplied list,
\* as in the _clean_prices docstring example
DirectStep ==
    /\ pcE = "page"
    /\ raw' = matches
    /\ src' = "direct"
    /\ pcE' = "raw"
    /\ UNCHANGED <<matches, clean, est>>
    /\ UNCHANGED <<scrVars, seqVars, conVars, idVars, dbVars>>

EstimateStep ==
    /\ pcE = "raw"
    /\ clean' = IF raw = <<>> THEN <<>> ELSE UsedSample(raw)
    /\ est' = Estimate(raw, NoText, 0)
    /\ pcE' = "done"
    /\ UNCHANGED <<matches, raw, src>>
    /\ UNCHANGED <<scrVars, seqVars, conVars, idVars, dbVars>>

EstNext == ExtractStep \/ DirectStep \/ EstimateStep

SpecEst == EstInit /\ [][EstNext]_vars

(***************************************************************************)
(* SpecUA: the device identification of one request, on User-Agent and     *)
(* model hint headers drawn from bounded families.                         *)
(***************************************************************************)
\* the headers of the requests: User-Agents built from the pieces the Android
\* patterns react to, from the platform markers and browser tokens in every
\* combination, User-Agents of real browsers and tools, and model hints
Requests ==
    LET
        \* pieces an Android token region is made of
        CascadeSegs ==
            { <<"K">>,
              <<" ">>,
              <<"A", "1">>,
              <<"B", "u", "i", "l", "d", "/">>,
              <<"B", "u", "i", "l", "d">>,
              <<"M", "I", "U", "I">>,
              <<"w", "v", ";">>,
              <<")">>,
              <<";">> }

        \* the texts made of at most k pieces
        RECURSIVE SegTexts(_)
        SegTexts(k) ==
            IF k = 0 THEN {<<>>}
            ELSE SegTexts(k - 1) \cup {x[1] \o x[2] : x \in SegTexts(k - 1) \X CascadeSegs}

        \* "Android <version>;" followed by such a text
        CascadeAgents == {<<"A", "n", "d", "r", "o", "i", "d", " ", "1", "4", ";">> \o t : t \in SegTexts(MaxSegs)}

        \* the platform markers, in the order parse looks for them
        PlatformMarkers ==
            << <<"A", "n", "d", "r", "o", "i", "d">>,
               <<"i", "P", "h", "o", "n", "e">>,
               <<"i", "P", "a", "d">>,
               <<"i", "P", "o", "d">>,
               <<"W", "i", "n", "d", "o", "w", "s">>,
               <<"M", "a", "c", "i", "n", "t", "o", "s", "h">>,
               <<"L", "i", "n", "u", "x">> >>

        \* the browser tokens, in the order _detect_browser looks for them
        BrowserTokens ==
            << <<"M", "i", "u", "i", "B", "r", "o", "w", "s", "e", "r">>,
               <<"E", "d", "g", "/">>,
               <<"C", "h", "r", "o", "m", "e">>,
               <<"S", "a", "f", "a", "r", "i">>,
               <<"F", "i", "r", "e", "f", "o", "x">>,
               <<"O", "p", "e", "r", "a">>,
               <<"O", "P", "R", "/">> >>

        \* the chosen words, separated by blanks, first to last or last to first
        RECURSIVE JoinPicked(_, _, _)
        JoinPicked(words, picked, i) ==
            IF i > Len(words) THEN <<>>
            ELSE (IF i \in picked THEN words[i] \o <<" ">> ELSE <<>>)
                     \o JoinPicked(words, picked, i + 1)

        Words(words, picked, order) ==
            IF order = "forward" THEN JoinPicked(words, picked, 1)
            ELSE JoinPicked(Reverse(words),
                            {Len(words) + 1 - i : i \in picked}, 1)

        Spellings == {"given", "upper"}
        Spell(s, spelling) == IF spelling = "upper" THEN ToUpper(s) ELSE s

        \* every set of platform markers with a few sets of browser tokens, and every
        \* set of browser tokens with at most one platform marker
        FewBrowsers == {{}, {3, 4}, {5}}
        FewPlatforms == {{}} \cup {{i} : i \in 1..Len(PlatformMarkers)}

        MarkerAgents ==
            {Spell(Words(PlatformMarkers, x[1][1], x[2])
                       \o Words(BrowserTokens, x[1][2], x[2]), x[3]) :
                x \in ((SUBSET (1..Len(PlatformMarkers))) \X FewBrowsers
                           \cup FewPlatforms \X (SUBSET (1..Len(BrowserTokens))))
                      \X {"forward", "backward"} \X Spellings}

        \* User-Agents of real browsers and tools
        SampleAgents ==
            { <<>>,
              <<"c", "u", "r", "l">>,
              <<"A", "n", "d", "r", "o", "i", "d">>,
              <<"A", "n", "d", "r", "o", "i", "d", " ", "1", "4", ";", " ", "S", "M", "-", "S", "9", "1", "1", "B", ")", " ", "C", "h", "r", "o", "m", "e", " ", "S", "a", "f", "a", "r", "i">>,
              <<"W", "i", "n", "d", "o", "w", "s", " ", "N", "T", " ", "1", "0", ".", "0">>,
              <<"W", "i", "n", "d", "o", "w", "s", " ", "N", "T", " ", "6", ".", "1", ";", " ", "F", "i", "r", "e", "f", "o", "x">>,
              <<"W", "i", "n", "d", "o", "w", "s", " ", "9", "5">>,
              <<"W", "i", "n", "d", "o", "w", "s">>,
              <<"i", "P", "h", "o", "n", "e", ";", " ", "C", "P", "U", " ", "i", "P", "h", "o", "n", "e", " ", "O", "S", " ", "1", "6", "_", "0", " ", "S", "a", "f", "a", "r", "i">>,
              <<"M", "a", "c", "i", "n", "t", "o", "s", "h", ";", " ", "M", "a", "c", " ", "O", "S", " ", "X", " ", "1", "0", "_", "1", "5", " ", "S", "a", "f", "a", "r", "i">>,
              <<"X", "1", "1", ";", " ", "L", "i", "n", "u", "x", " ", "F", "i", "r", "e", "f", "o", "x">>,
              <<"A", "n", "d", "r", "o", "i", "d", " ", "9", ";", " ", "L", "M", "-", "G", "8", ")">>,
              <<"A", "n", "d", "r", "o", "i", "d", " ", "9", ";", " ", "l", "m", "-", "g", "8", " ", "B", "u", "i", "l", "d", "/">>,
              <<"A", "n", "d", "r", "o", "i", "d", " ", "1", "4", ";", " ", "k", " ", ")">> }

        \* values of the Sec-CH-UA-Model header
        Hints ==
            { <<"\"", "K", "\"">>,
              <<"K">>,
              <<"\"", "\"">>,
              <<"\"", "L", "M", "-", "V", "6", "\"">>,
              <<"\"", "A", "n", "d", "r", "o", "i", "d", " ", "D", "e", "v", "i", "c", "e", "\"">>,
              <<"\"", "U", "n", "k", "n", "o", "w", "n", "\"">> }

        \* User-Agents sent together with a hint
        HintedAgents ==
            { <<"A", "n", "d", "r", "o", "i", "d", " ", "1", "0", ";", " ", "K", ")">>,
              <<"A", "n", "d", "r", "o", "i", "d", " ", "1", "4", ";", "w", "v", ";", "K", " ", "B", "u", "i", "l", "d", "/">>,
              <<"A", "n", "d", "r", "o", "i", "d", " ", "9", ";", " ", "L", "M", "-", "G", "8", ")">>,
              <<"c", "u", "r", "l">> }
    IN
        {[user_agent |-> u, ch_model |-> <<>>] :
            u \in CascadeAgents \cup MarkerAgents \cup SampleAgents}
        \cup {[user_agent |-> x[1], ch_model |-> x[2]] :
                 x \in HintedAgents \X Hints}

UAInit ==
    /\ \E r \in Requests : req_ua = r.user_agent /\ req_hint = r.ch_model
    /\ req_parsed = None
    /\ req_codes = <<>>
    /\ req_lookups = <<>>
    /\ matched = None
    /\ pcI = "request"
    /\ EstIdle
    /\ SeqInit
    /\ ConIdle
    /\ DbIdle

\* login line 174: parsed = ua_parser.parse(user_agent)
ParseStep ==
    /\ pcI = "request"
    /\ req_parsed' = Parse(req_ua)
    /\ pcI' = "parsed"
    /\ UNCHANGED <<req_ua, req_hint, req_codes, req_lookups, matched>>
    /\ UNCHANGED <<estVars, scrVars, seqVars, conVars, dbVars>>

\* login lines 177-178
HintStep ==
    /\ pcI = "parsed"
    /\ req_parsed' = ApplyHint(req_parsed, req_hint)
    /\ pcI' = "hinted"
    /\ UNCHANGED <<req_ua, req_hint, req_codes, req_lookups, matched>>
    /\ UNCHANGED <<estVars, scrVars, seqVars, conVars, dbVars>>

\* login lines 187-200: the candidates and the lookup loop
FindStep ==
    /\ pcI = "hinted"
    /\ LET codes == ModelCodes(req_parsed, req_ua)
           loop == FindLoop(device_db.devices, codes, <<>>)
       IN  /\ req_codes' = codes
           /\ req_lookups' = loop.lookups
           /\ matched' = loop.device
    /\ pcI' = "done"
    /\ UNCHANGED <<req_ua, req_hint, req_parsed>>
    /\ UNCHANGED <<estVars, scrVars, seqVars, conVars, dbVars>>

UANext == ParseStep \/ HintStep \/ FindStep

SpecUA == UAInit /\ [][UANext]_vars

(***************************************************************************)
(* SpecDb: a DeviceDatabase built from bounded tables, then asked.         *)
(***************************************************************************)
\* the two tables a DeviceDatabase is built from: at most MaxRows device rows
\* and a price table
CsvTables ==
    LET
        \* model codes of catalog rows: case variants of one code, another code with
        \* blanks around it, and an empty cell
        RowCodes ==
            { <<"A", "b">>,
              <<"a", "B">>,
              <<"A", "B">>,
              <<"a", "b">>,
              <<" ", "c", "1", " ">>,
              <<>> }

        \* complete rows, and a row shorter than the header, whose missing
        \* cells csv.DictReader fills with None
        RowSet ==
            [Brand : {<<"X">>, <<"Y">>}, Model_Code : RowCodes,
             Marketing_Name : {<<"O", "n", "e">>, <<>>}]
            \cup {[Brand |-> <<"X">>, Model_Code |-> NoText,
                   Marketing_Name |-> NoText]}

        RECURSIVE RowSeqs(_)
        RowSeqs(k) ==
            IF k = 0 THEN {<<>>}
            ELSE RowSeqs(k - 1) \cup {Append(x[1], x[2]) : x \in RowSeqs(k - 1) \X RowSet}

        GoodPrice ==
            [Marketing_Name |-> <<"O", "n", "e">>,
             Price_IDR |-> <<"R", "p", " ", "5", ".", "0", "0", "0", ".", "0", "0", "0">>]

        \* a price that is no number
        BadPrice ==
            [Marketing_Name |-> <<"T", "w", "o">>, Price_IDR |-> <<"n", "/", "a">>]

        PriceTables ==
            { <<>>, <<GoodPrice>>, <<GoodPrice, BadPrice>>, <<BadPrice, GoodPrice>> }
    IN  [devices : RowSeqs(MaxRows), prices : PriceTables]

\* tokens find_device is asked for
Tokens ==
    { <<"A", "b">>,
      <<"a", "B">>,
      <<"A", "B">>,
      <<"a", "b">>,
      <<"c", "1">>,
      <<"C", "1">>,
      <<"c", "2">>,
      <<"z", "z">>,
      <<>> }

DbInit ==
    /\ \E t \in CsvTables : csv_devices = t.devices /\ csv_prices = t.prices
    /\ db = None
    /\ asked = <<>>
    /\ asked_threshold = <<0, 1>>
    /\ answer = None
    /\ pcD = "csv"
    /\ EstIdle
    /\ SeqInit
    /\ ConIdle
    /\ IdIdle

\* DeviceDatabase(devices_csv, prices_csv)
LoadStep ==
    /\ pcD = "csv"
    /\ db' = DeviceDatabase(csv_devices, csv_prices)
    /\ pcD' = "loaded"
    /\ UNCHANGED <<csv_devices, csv_prices, asked, asked_threshold, answer>>
    /\ UNCHANGED <<estVars, scrVars, seqVars, conVars, idVars>>

\* device_db.find_device(model_code)
FindDeviceStep ==
    /\ pcD = "loaded"
    /\ \E t \in Tokens :
           /\ asked' = t
           /\ answer' = FindDevice(db.devices, t)
    /\ pcD' = "found"
    /\ UNCHANGED <<csv_devices, csv_prices, db, asked_threshold>>
    /\ UNCHANGED <<estVars, scrVars, seqVars, conVars, idVars>>

\* login lines 193-200 over the loaded catalog, for a list of two candidates
LoginLoopStep ==
    /\ pcD = "loaded"
    /\ \E a \in Tokens, b \in Tokens :
           /\ req_codes' = <<a, b>>
           /\ req_lookups' = FindLoop(db.devices, <<a, b>>, <<>>).lookups
           /\ matched' = FindLoop(db.devices, <<a, b>>, <<>>).device
    /\ pcD' = "matched"
    /\ UNCHANGED <<csv_devices, csv_prices, db, asked, asked_threshold, answer>>
    /\ UNCHANGED <<req_ua, req_hint, req_parsed, pcI>>
    /\ UNCHANGED <<estVars, scrVars, seqVars, conVars>>

\* queries search_device is asked for: near a model code, a marketing name
\* in another case, part of it, a model code in another case, unlike
\* anything, part of a model code, and the empty string
SearchQueries ==
    { <<"A", "b", "x">>,
      <<"o", "n", "e">>,
      <<"o", "n">>,
      <<"a", "b">>,
      <<"z", "z">>,
      <<"c">>,
      <<>> }

\* thresholds as fractions: 0, the default 0.6, and 1
Thresholds == { <<0, 1>>, <<6, 10>>, <<1, 1>> }

\* device_db.search_device(query, threshold)
SearchDeviceStep ==
    /\ pcD = "loaded"
    /\ \E q \in SearchQueries, th \in Thresholds :
           /\ asked' = q
           /\ asked_threshold' = th
           /\ answer' = SearchDevice(db, q, th)
    /\ pcD' = "searched"
    /\ UNCHANGED <<csv_devices, csv_prices, db>>
    /\ UNCHANGED <<estVars, scrVars, seqVars, conVars, idVars>>

DbNext == LoadStep \/ FindDeviceStep \/ LoginLoopStep \/ SearchDeviceStep

SpecDb == DbInit /\ [][DbNext]_vars

(***************************************************************************)
(* SpecConc: request threads of the threaded Flask server run              *)
(* get_market_price on the one module-level scraper; no lock is taken      *)
(* anywhere, so threads interleave between statements.                     *)
(***************************************************************************)
Threads == 1..NThreads

NoLocals == [query |-> NoText, entry |-> None, wake |-> NoTime, result |-> None]

ConcInit ==
    /\ EstIdle
    /\ IdIdle
    /\ DbIdle
    /\ cache = [q \in Queries |-> None]
    /\ last_request = NoTime
    /\ now = 0
    /\ history = <<>>
    /\ logs = <<>>
    /\ idle = FALSE
    /\ tpc = [t \in Threads |-> "idle"]
    /\ tloc = [t \in Threads |-> NoLocals]
    /\ tcalls = [t \in Threads |-> 0]
    /\ fetchStarts = <<>>
    /\ ticks = 0

ConcFrame == UNCHANGED <<estVars, seqVars, idVars, dbVars>>

\* get_market_price entry: length check and _normalize_query
Begin(t, name) ==
    /\ tpc[t] = "idle"
    /\ tcalls[t] < MaxThreadCalls
    /\ tcalls' = [tcalls EXCEPT ![t] = @ + 1]
    /\ IF name = <<>> \/ Len(Strip(name)) < 3
       THEN /\ tpc' = [tpc EXCEPT ![t] = "returned"]
            /\ tloc' = [tloc EXCEPT ![t] = NoLocals]
       ELSE /\ tpc' = [tpc EXCEPT ![t] = "cache_test"]
            /\ tloc' = [tloc EXCEPT ![t] =
                           [NoLocals EXCEPT !.query = NormalizeQuery(name)]]
    /\ UNCHANGED <<cache, last_request, now, fetchStarts, ticks>>
    /\ ConcFrame

\* _get_from_cache: if query not in self._cache
CacheTest(t) ==
    /\ tpc[t] = "cache_test"
    /\ tpc' = [tpc EXCEPT ![t] = IF cache[tloc[t].query] = None
                                 THEN "rate_check" ELSE "cache_load"]
    /\ UNCHANGED <<cache, last_request, now, tloc, tcalls, fetchStarts, ticks>>
    /\ ConcFrame

\* _get_from_cache: cached_result, cached_time = self._cache[query]
CacheLoad(t) ==
    /\ tpc[t] = "cache_load"
    /\ IF cache[tloc[t].query] = None
       THEN /\ tpc' = [tpc EXCEPT ![t] = "raised"]
            /\ tloc' = tloc
       ELSE /\ tpc' = [tpc EXCEPT ![t] = "cache_age"]
            /\ tloc' = [tloc EXCEPT ![t].entry = cache[tloc[t].query]]
    /\ UNCHANGED <<cache, last_request, now, tcalls, fetchStarts, ticks>>
    /\ ConcFrame

\* _get_from_cache: datetime.now() - cached_time < CACHE_DURATION
CacheAge(t) ==
    /\ tpc[t] = "cache_age"
    /\ IF now - tloc[t].entry.time < CACHE_DURATION
       THEN /\ tpc' = [tpc EXCEPT ![t] = "returned"]
            /\ tloc' = [tloc EXCEPT ![t].result = tloc[t].entry.result]
       ELSE /\ tpc' = [tpc EXCEPT ![t] = "cache_del"]
            /\ tloc' = tloc
    /\ UNCHANGED <<cache, last_request, now, tcalls, fetchStarts, ticks>>
    /\ ConcFrame

\* _get_from_cache: del self._cache[query]
CacheDel(t) ==
    /\ tpc[t] = "cache_del"
    /\ IF cache[tloc[t].query] = None
       THEN /\ tpc' = [tpc EXCEPT ![t] = "raised"]
            /\ cache' = cache
       ELSE /\ tpc' = [tpc EXCEPT ![t] = "rate_check"]
            /\ cache' = [cache EXCEPT ![tloc[t].query] = None]
    /\ UNCHANGED <<last_request, now, tloc, tcalls, fetchStarts, ticks>>
    /\ ConcFrame

\* _apply_rate_limit: read self._last_request, compute the time to sleep
RateCheck(t) ==
    /\ tpc[t] = "rate_check"
    /\ LET sleep_time == SleepTime(last_request, now)
       IN  IF sleep_time > 0
           THEN /\ tpc' = [tpc EXCEPT ![t] = "sleeping"]
                /\ tloc' = [tloc EXCEPT ![t].wake = now + sleep_time]
           ELSE /\ tpc' = [tpc EXCEPT ![t] = "stamp"]
                /\ tloc' = tloc
    /\ UNCHANGED <<cache, last_request, now, tcalls, fetchStarts, ticks>>
    /\ ConcFrame

\* _apply_rate_limit: time.sleep(sleep_time) returns
Wake(t) ==
    /\ tpc[t] = "sleeping"
    /\ now >= tloc[t].wake
    /\ tpc' = [tpc EXCEPT ![t] = "stamp"]
    /\ UNCHANGED <<cache, last_request, now, tloc, tcalls, fetchStarts, ticks>>
    /\ ConcFrame

\* _apply_rate_limit: self._last_request = datetime.now()
Stamp(t) ==
    /\ tpc[t] = "stamp"
    /\ last_request' = now
    /\ tpc' = [tpc EXCEPT ![t] = "fetch"]
    /\ UNCHANGED <<cache, now, tloc, tcalls, fetchStarts, ticks>>
    /\ ConcFrame

\* _fetch_prices: self._session.get(url, timeout=15) is issued
FetchStart(t) ==
    /\ tpc[t] = "fetch"
    /\ fetchStarts' = Append(fetchStarts, now)
    /\ tpc' = [tpc EXCEPT ![t] = "fetching"]
    /\ UNCHANGED <<cache, last_request, now, tloc, tcalls, ticks>>
    /\ ConcFrame

\* the response (or the failure) arrives; STEP 4 .. STEP 8 build the result
FetchEnd(t, outcome) ==
    /\ tpc[t] = "fetching"
    /\ LET f == FetchPrices(outcome)
           r == IF f.raised THEN None
                ELSE Estimate(f.prices, BuildSmartUrl(tloc[t].query), now)
       IN  /\ tpc' = [tpc EXCEPT ![t] = IF f.raised THEN "raised"
                                        ELSE IF r = None THEN "returned"
                                        ELSE "save"]
           /\ tloc' = [tloc EXCEPT ![t].result = r]
    /\ UNCHANGED <<cache, last_request, now, tcalls, fetchStarts, ticks>>
    /\ ConcFrame

\* _save_to_cache, then return result
Save(t) ==
    /\ tpc[t] = "save"
    /\ cache' = SaveToCache(cache, tloc[t].query, tloc[t].result, now)
    /\ tpc' = [tpc EXCEPT ![t] = "returned"]
    /\ UNCHANGED <<last_request, now, tloc, tcalls, fetchStarts, ticks>>
    /\ ConcFrame

\* the request is answered (or failed with an unhandled exception);
\* the thread takes the next request
Finish(t) ==
    /\ tpc[t] \in {"returned", "raised"}
    /\ tpc' = [tpc EXCEPT ![t] = "idle"]
    /\ tloc' = [tloc EXCEPT ![t] = NoLocals]
    /\ UNCHANGED <<cache, last_request, now, tcalls, fetchStarts, ticks>>
    /\ ConcFrame

\* clear_cache on another request thread: self._cache.clear()
ClearCacheConc ==
    /\ \E q \in Queries : cache[q] # None
    /\ cache' = [q \in Queries |-> None]
    /\ UNCHANGED <<last_request, now, tpc, tloc, tcalls, fetchStarts, ticks>>
    /\ ConcFrame

\* the clock advances
ConcDelays == {1, CACHE_DURATION}

TickConc(d) ==
    /\ ticks < MaxTicks
    /\ ticks' = ticks + 1
    /\ now' = now + d
    /\ UNCHANGED <<cache, last_request, tpc, tloc, tcalls, fetchStarts>>
    /\ ConcFrame

ConcNext ==
    \/ \E t \in Threads, name \in ApiNames : Begin(t, name)
    \/ \E t \in Threads : CacheTest(t)
    \/ \E t \in Threads : CacheLoad(t)
    \/ \E t \in Threads : CacheAge(t)
    \/ \E t \in Threads : CacheDel(t)
    \/ \E t \in Threads : RateCheck(t)
    \/ \E t \in Threads : Wake(t)
    \/ \E t \in Threads : Stamp(t)
    \/ \E t \in Threads : FetchStart(t)
    \/ \E t \in Threads, o \in Outcomes : FetchEnd(t, o)
    \/ \E t \in Threads : Save(t)
    \/ \E t \in Threads : Finish(t)
    \/ ClearCacheConc
    \/ \E d \in ConcDelays : TickConc(d)

SpecConc == ConcInit /\ [][ConcNext]_vars

(***************************************************************************)
(* Properties of the estimator (checked under SpecEst).                    *)
(***************************************************************************)
EstDone == pcE = "done"
FromFetch == EstDone /\ src = "fetch"

\* C1: for every non-empty raw price sample of in-band values, the returned
\* MarketPrice has min_price <= market_price <= max_price and
\* sample_count <= raw_count.
C1_PriceWithinRange ==
    (FromFetch /\ raw # <<>>) =>
        /\ est # None
        /\ est.min_price <= est.market_price
        /\ est.market_price <= est.max_price
        /\ est.sample_count <= est.raw_count

\* C7: an empty raw price list gives None; no returned record has a zero
\* market_price or a zero sample_count.
C7_EmptyRawIsAbsent ==
    FromFetch =>
        /\ raw = <<>> => est = None
        /\ est # None => (est.market_price # 0 /\ est.sample_count # 0)

C7_Witness == FromFetch /\ matches # <<>> /\ raw = <<>> /\ est = None

\* the reference trimmed range, stated without the code's helpers
RefCut(n) ==
    LET c == CHOOSE k \in 0..n : 100 * k <= 15 * n /\ 15 * n < 100 * (k + 1)
    IN  IF n >= 6 /\ c = 0 THEN 1 ELSE c

\* the i-th smallest element of a sample
OrderStat(sample, i) ==
    CHOOSE v \in {sample[j] : j \in 1..Len(sample)} :
        /\ Cardinality({j \in 1..Len(sample) : sample[j] < v}) < i
        /\ i <= Cardinality({j \in 1..Len(sample) : sample[j] <= v})

RefTrimmed(sample) ==
    LET n == Len(sample)
        k == RefCut(n)
    IN  [i \in 1..(n - 2 * k) |-> OrderStat(sample, i + k)]

RefUsed(sample) ==
    IF Len(RefTrimmed(sample)) < 5 THEN sample ELSE RefTrimmed(sample)

ExampleSample == <<4500000, 8400000, 8500000, 8500000, 8600000, 8600000,
                   8700000, 11000000>>

\* C8: the sample used for the estimate is the reference trimmed range of the
\* raw sample (cut floor(0.15 n) at each end, at least 1 when n >= 6, whole raw
\* sample when fewer than 5 remain); the docstring's n = 8 sample gives 6
\* cleaned values and the central price 8,550,000.
C8_TrimmedRange ==
    EstDone =>
        /\ clean = RefUsed(raw)
        /\ raw = ExampleSample =>
              /\ clean = <<8400000, 8500000, 8500000, 8600000, 8600000, 8700000>>
              /\ est.market_price = 8550000

C8_Witness == EstDone /\ raw = ExampleSample /\ Len(clean) = 6

\* C9: cleaning never leaves fewer than min(raw_count, MIN_SAMPLES) values.
C9_UsableSample ==
    (EstDone /\ est # None) =>
        /\ est.raw_count = Len(raw)
        /\ est.sample_count = Len(clean)
        /\ est.raw_count >= 5 => est.sample_count >= 5
        /\ est.raw_count < 5 => est.sample_count = est.raw_count

C9_Witness == FromFetch /\ est # None /\ Len(raw) = 6 /\ est.sample_count = 6

\* C10: the cleaned sample is a sub-multiset of the raw sample, and min_price
\* and max_price are the least and greatest value of the cleaned sample.
C10_CleanWithinRaw ==
    (EstDone /\ est # None) =>
        /\ \A i \in 1..Len(clean) :
              Count(clean, clean[i]) <= Count(raw, clean[i])
        /\ \E i \in 1..Len(clean) : clean[i] = est.min_price
        /\ \A i \in 1..Len(clean) : est.min_price <= clean[i]
        /\ \E i \in 1..Len(clean) : clean[i] = est.max_price
        /\ \A i \in 1..Len(clean) : clean[i] <= est.max_price

C10_Witness ==
    /\ FromFetch
    /\ est # None
    /\ Len(clean) < Len(raw)
    /\ \E j \in 1..Len(raw) : raw[j] < est.min_price
    /\ \E j \in 1..Len(raw) : raw[j] > est.max_price

\* the label the documentation gives to a cleaned-sample size
RefLabel(n) ==
    CASE n >= 10 -> "high"
      [] n >= 5 /\ n <= 9 -> "medium"
      [] n < 5 -> "low"

\* C11: the confidence of every returned estimate is the label of its
\* sample_count alone ('high' from 10, 'medium' for 5..9, 'low' below 5), and
\* sample_count is the size of the cleaned sample.
C11_ConfidenceBySampleCount ==
    (EstDone /\ est # None) =>
        /\ est.sample_count = Len(clean)
        /\ est.confidence = RefLabel(est.sample_count)

C11_Witness ==
    /\ FromFetch
    /\ est # None
    /\ est.raw_count = 14
    /\ est.sample_count = 10
    /\ est.confidence = "high"

\* twice the exact median of a sample, by order statistics
RefMedian2(sample) ==
    LET n == Len(sample)
    IN  IF n % 2 = 1 THEN 2 * OrderStat(sample, (n + 1) \div 2)
        ELSE OrderStat(sample, n \div 2) + OrderStat(sample, n \div 2 + 1)

\* C12: market_price is a multiple of 1000 and lies within 500 of the exact
\* median of the cleaned sample.
C12_RoundedMedian ==
    (EstDone /\ est # None) =>
        /\ est.market_price % 1000 = 0
        /\ 2 * est.market_price - RefMedian2(clean) <= 1000
        /\ RefMedian2(clean) - 2 * est.market_price <= 1000

\* an even-sized cleaned sample whose median is not a multiple of 1000
C12_Witness ==
    /\ FromFetch
    /\ est # None
    /\ Len(clean) % 2 = 0
    /\ RefMedian2(clean) % 2000 > 1000
    /\ 2 * est.market_price > RefMedian2(clean)

\* C28: for every raw sample with raw_count >= 6 the sample used for the
\* estimate excludes the smallest and the largest raw observation, so
\* sample_count <= raw_count - 2.
C28_EndsTrimmedFromSix ==
    (EstDone /\ est # None /\ Len(raw) >= 6) =>
        /\ est.sample_count <= est.raw_count - 2
        /\ Count(clean, MinOf(raw)) < Count(raw, MinOf(raw))
        /\ Count(clean, MaxOf(raw)) < Count(raw, MaxOf(raw))

\* C28, amended: the same for raw_count >= 7; a raw sample of 6 would keep 4
\* values, fewer than MIN_SAMPLES, and is used whole.
C28_EndsTrimmedFromSeven ==
    (EstDone /\ est # None) =>
        /\ Len(raw) >= 7 =>
              /\ est.sample_count <= est.raw_count - 2
              /\ Count(clean, MinOf(raw)) < Count(raw, MinOf(raw))
              /\ Count(clean, MaxOf(raw)) < Count(raw, MaxOf(raw))
        /\ Len(raw) = 6 =>
              /\ est.sample_count = est.raw_count
              /\ \A v \in {MinOf(raw), MaxOf(raw)} :
                     Count(clean, v) = Count(raw, v)

\* seven raw prices, the smallest and the largest cut, five used
C28_Witness ==
    /\ FromFetch
    /\ est # None
    /\ est.raw_count = 7
    /\ est.sample_count = 5
    /\ est.min_price > MinOf(raw)
    /\ est.max_price < MaxOf(raw)

(***************************************************************************)
(* Properties of the scraper serving one request after another (Spec).     *)
(***************************************************************************)
\* the entries of history that are get_market_price calls
IsCall(i) == history[i].via \in {"api", "login"} /\ history[i].name # <<>>

\* two calls in a row for the same normalized query, the second starting
\* less than CACHE_DURATION after the first
CachedPair(i) ==
    /\ IsCall(i)
    /\ IsCall(i + 1)
    /\ NormalizeQuery(history[i].name) = NormalizeQuery(history[i + 1].name)
    /\ history[i + 1].t0 - history[i].t0 < CACHE_DURATION

\* C2: two calls for the same normalized query within CACHE_DURATION issue
\* exactly one external fetch in total, whatever the outcome of the fetch the
\* first call makes.
C2_OneFetchPerPair ==
    \A i \in 1..(Len(history) - 1) :
        (CachedPair(i) /\ history[i].fetched) =>
            history[i].attempts + history[i + 1].attempts = 1

\* C2 as amended: ... exactly one external fetch in total provided the first
\* call fetched and its fetch yielded a price (a result was returned).
C2_OneFetchAfterSuccess ==
    \A i \in 1..(Len(history) - 1) :
        (CachedPair(i) /\ history[i].fetched /\ history[i].ret # None) =>
            history[i].attempts + history[i + 1].attempts = 1

C2_Witness ==
    /\ Len(history) = 2
    /\ CachedPair(1)
    /\ history[1].name # history[2].name
    /\ history[1].fetched
    /\ history[1].ret # None
    /\ history[2].hit
    /\ history[2].t0 > history[1].t0

\* C3: every external fetch starts at least REQUEST_DELAY after the timestamp
\* the rate limiter recorded for the previous fetch, also when that fetch
\* failed or found no price.
C3_FetchesSpaced ==
    \A i, j \in 1..Len(history) :
        (i < j /\ IsCall(i) /\ IsCall(j)
           /\ history[i].fetched /\ history[j].fetched) =>
            history[j].fetch_start - history[i].stamp >= REQUEST_DELAY

C3_Witness ==
    \E i, j \in 1..Len(history) :
        /\ i < j /\ IsCall(i) /\ IsCall(j)
        /\ history[i].fetched /\ history[i].ret = None
        /\ history[j].fetched
        /\ history[j].t0 - history[i].stamp < REQUEST_DELAY
        /\ history[j].fetch_start = history[i].stamp + REQUEST_DELAY

\* C5: a fetch that times out, fails in transport or gets a non-200 status
\* makes one request attempt; get_market_price returns None, raises nothing
\* and stores nothing in the cache; a login still writes its log row, without
\* a scraped price.
C5_FailedFetchStep ==
    (/\ Len(history') = Len(history) + 1
     /\ history'[Len(history')].via # "clear"
     /\ history'[Len(history')].fetched
     /\ history'[Len(history')].outcome.kind \in RequestFailures)
    => LET h == history'[Len(history')]
       IN  /\ h.attempts = 1
           /\ h.ret = None
           /\ ~h.raised
           /\ \A q \in Queries :
                 cache'[q] = cache[q] \/ (q = h.query /\ cache'[q] = None)
           /\ h.via = "login" =>
                 /\ Len(logs') = Len(logs) + 1
                 /\ logs'[Len(logs')].scraped_price_min = NoPrice
                 /\ logs'[Len(logs')].scraped_price_max = NoPrice
                 /\ logs'[Len(logs')].price_source # "tokopedia"

C5_FailedFetch == [][C5_FailedFetchStep]_vars

C5_Witness ==
    \E i \in 1..Len(history) :
        /\ history[i].via = "login"
        /\ history[i].fetched
        /\ history[i].outcome.kind = "timeout"
        /\ history[i].logged
        /\ Len(logs) > 0

\* C6: no error raised while sampling or estimating leaves the sampler; the
\* login handler always finishes and writes its log row.
C6_NoErrorEscapes ==
    \A i \in 1..Len(history) :
        (IsCall(i) /\ history[i].via = "login") =>
            /\ ~history[i].raised
            /\ history[i].logged

\* the model token of a login after the hint override
ModelToken ==
    [req \in LoginRequests |->
        ApplyHint(Parse(req.user_agent), req.ch_model).model_code]

\* the logins none of whose candidate tokens is in the catalog
UnmatchedLogins ==
    {req \in LoginRequests :
        \A i \in 1..Len(Identified[req].model_codes) :
            FindDevice(device_db.devices, Identified[req].model_codes[i]) = None}

\* C25: a login none of whose candidate tokens matches the catalog issues no
\* external fetch and no rate-limit wait, and writes exactly one log record,
\* with brand absent, marketing name equal to the model token, reference
\* price 0 and no scraped price.
C25_UnmatchedLoginStep ==
    \A req \in UnmatchedLogins, o \in Outcomes \cup {NoOutcome} :
        Login(req, o) =>
            /\ history'[Len(history')].attempts = 0
            /\ ~history'[Len(history')].fetched
            /\ ~history'[Len(history')].raised
            /\ now' = now
            /\ last_request' = last_request
            /\ cache' = cache
            /\ Len(logs') = Len(logs) + 1
            /\ logs'[Len(logs')].brand = NoText
            /\ logs'[Len(logs')].marketing_name = logs'[Len(logs')].model_code
            /\ logs'[Len(logs')].model_code = ModelToken[req]
            /\ logs'[Len(logs')].price_idr = 0
            /\ logs'[Len(logs')].scraped_price_min = NoPrice
            /\ logs'[Len(logs')].scraped_price_max = NoPrice
            /\ logs'[Len(logs')].price_source = "none"

C25_UnmatchedLogin == [][C25_UnmatchedLoginStep]_vars

\* an unmatched login served between two fetches: after a fetch, within the
\* rate-limit delay, it is logged without fetching or waiting
C25_Witness ==
    /\ Len(history) = 2
    /\ IsCall(1)
    /\ history[1].fetched
    /\ history[2].via = "login"
    /\ history[2].name = <<>>
    /\ history[2].t0 - history[1].stamp < REQUEST_DELAY
    /\ history[2].logged
    /\ logs # <<>>
    /\ logs[Len(logs)].brand = NoText
    /\ logs[Len(logs)].marketing_name = Name.Unknown
    /\ now = history[2].t0

\* the step is a get_market_price call that reached the cache lookup
CallStep ==
    /\ Len(history') = Len(history) + 1
    /\ history'[Len(history')].via \in {"api", "login"}
    /\ history'[Len(history')].query # NoText

\* the step is a clear_cache call
ClearStep ==
    /\ Len(history') = Len(history) + 1
    /\ history'[Len(history')].via = "clear"

\* C26: a cached result is served only while less than CACHE_DURATION has
\* passed since the fetch that produced it stored it; a hit does not refresh
\* that time; a read at or after expiry deletes the entry and leads to a new
\* fetch; entries are removed only by expiry-on-read of the same key or by
\* clear_cache.
C26_CacheLifetimeStep ==
    \* served only while fresh, as stored, and not refreshed
    /\ (CallStep /\ history'[Len(history')].hit) =>
           LET h == history'[Len(history')]
           IN  /\ cache[h.query] # None
               /\ h.t0 - cache[h.query].time < CACHE_DURATION
               /\ h.ret = cache[h.query].result
               /\ cache'[h.query] = cache[h.query]
    \* a read at or after expiry deletes the entry and fetches
    /\ (CallStep /\ cache[history'[Len(history')].query] # None
          /\ history'[Len(history')].t0
                - cache[history'[Len(history')].query].time >= CACHE_DURATION) =>
           LET h == history'[Len(history')]
           IN  /\ ~h.hit
               /\ h.fetched
               /\ cache'[h.query] # cache[h.query]
               /\ cache'[h.query] # None => cache'[h.query].time = now'
    \* an entry is stored by the fetch that produced it, at its return
    /\ \A q \in Queries :
           (cache'[q] # None /\ cache'[q] # cache[q]) =>
               /\ CallStep
               /\ history'[Len(history')].query = q
               /\ history'[Len(history')].fetched
               /\ cache'[q].result = history'[Len(history')].ret
               /\ cache'[q].time = now'
    \* an entry goes only by expiry-on-read of its key or by clear_cache
    /\ \A q \in Queries :
           (cache[q] # None /\ cache'[q] = None) =>
               \/ ClearStep
               \/ /\ CallStep
                  /\ history'[Len(history')].query = q
                  /\ history'[Len(history')].t0 - cache[q].time >= CACHE_DURATION

C26_CacheLifetime == [][C26_CacheLifetimeStep]_vars

\* a result read again exactly CACHE_DURATION after it was stored: the entry
\* is gone and the call fetched anew
C26_Witness ==
    /\ Len(history) = 2
    /\ IsCall(1) /\ IsCall(2)
    /\ history[1].query = history[2].query
    /\ history[1].fetched
    /\ history[1].ret # None
    /\ history[2].t0 - history[1].ret.scraped_at = CACHE_DURATION
    /\ ~history[2].hit
    /\ history[2].fetched
    /\ history[2].ret = None
    /\ cache[history[2].query] = None

\* C27: a get_market_price call answered from the cache issues no external
\* fetch and performs no rate-limit wait, leaves the last-fetch timestamp and
\* the cache contents unchanged, and returns the stored record itself; every
\* call that finds a fresh entry is answered so.
C27_CacheHitStep ==
    /\ (CallStep /\ history'[Len(history')].hit) =>
           LET h == history'[Len(history')]
           IN  /\ ~h.fetched
               /\ h.attempts = 0
               /\ h.fetch_start = NoTime
               /\ ~h.raised
               /\ now' = now
               /\ last_request' = last_request
               /\ h.stamp = h.stamp_before
               /\ cache' = cache
               /\ h.ret # None
               /\ h.ret = cache[h.query].result
    /\ (CallStep /\ cache[history'[Len(history')].query] # None
          /\ history'[Len(history')].t0
                - cache[history'[Len(history')].query].time < CACHE_DURATION) =>
           history'[Len(history')].hit

C27_CacheHit == [][C27_CacheHitStep]_vars

\* a hit one second after the fetch that stored the entry, inside the
\* rate-limit delay: the call returns at once with the record of the fetch
C27_Witness ==
    /\ Len(history) = 2
    /\ IsCall(1) /\ IsCall(2)
    /\ history[1].fetched
    /\ history[2].hit
    /\ history[2].t0 - history[1].stamp < REQUEST_DELAY
    /\ now = history[2].t0
    /\ last_request = history[1].stamp
    /\ history[2].ret = history[1].ret
    /\ cache[history[2].query] # None

\* C29: clear_cache returns the number of entries that were in the cache,
\* leaves the cache empty and does not change the last-fetch timestamp; the
\* next get_market_price, also for a query cached just before, fetches anew
\* and still waits out the rate-limit delay.
C29_ClearCacheStep ==
    /\ ClearStep =>
           /\ history'[Len(history')].count
                  = Cardinality({q \in Queries : cache[q] # None})
           /\ \A q \in Queries : cache'[q] = None
           /\ last_request' = last_request
           /\ now' = now
    /\ (CallStep /\ history # <<>> /\ history[Len(history)].via = "clear") =>
           LET h == history'[Len(history')]
           IN  /\ ~h.hit
               /\ h.fetched
               /\ h.attempts = 1
               /\ h.fetch_start >= h.t0
               /\ last_request # NoTime =>
                      h.fetch_start - last_request >= REQUEST_DELAY

C29_ClearCache == [][C29_ClearCacheStep]_vars

\* a result is cached, the cache is cleared, and the same query is asked
\* again at once: one entry cleared, a new fetch, REQUEST_DELAY after the
\* last one
C29_Witness ==
    /\ Len(history) = 3
    /\ IsCall(1)
    /\ history[1].fetched
    /\ history[1].ret # None
    /\ history[2].via = "clear"
    /\ history[2].count = 1
    /\ IsCall(3)
    /\ history[3].query = history[1].query
    /\ history[3].t0 - history[1].stamp < REQUEST_DELAY
    /\ history[3].fetched
    /\ history[3].fetch_start = history[1].stamp + REQUEST_DELAY

(***************************************************************************)
(* Properties of concurrent request threads (SpecConc).                    *)
(***************************************************************************)
\* C4: under every interleaving of request threads, no two external fetches
\* are issued less than REQUEST_DELAY seconds apart.
C4_ConcurrentFetchesSpaced ==
    \A i, j \in 1..Len(fetchStarts) :
        i < j => fetchStarts[j] - fetchStarts[i] >= REQUEST_DELAY

\* C30: under every interleaving of get_market_price and clear_cache calls, a
\* cache read never fails: no thread raises at the read of an entry it tested
\* as present, nor at the delete of an entry it found expired.
C30_CacheReadStep ==
    \A t \in Threads :
        tpc[t] \in {"cache_load", "cache_del"} => tpc'[t] # "raised"

C30_CacheReadNeverFails == [][C30_CacheReadStep]_vars

(***************************************************************************)
(* Properties of the signature extractor and of the device identification  *)
(* of a login (checked under SpecUA).                                      *)
(***************************************************************************)
Parsed == pcI = "parsed"
Identification == pcI = "done"

\* the word occurs in the text, letter case ignored
Mentions(text, word) ==
    \E i \in 1..Len(text) :
        /\ i + Len(word) - 1 <= Len(text)
        /\ ToLower(SubSeq(text, i, i + Len(word) - 1)) = word

PlatformNames == {"android", "ios", "windows", "macos", "linux", "other", "unknown"}

\* C13: for every input string parse returns a signature with a non-empty
\* model_code and an os_type among android, ios, windows, macos, linux, other,
\* unknown, whatever the Android pattern cascade and its cleanup produce.
C13_SignatureDefined ==
    Parsed =>
        /\ req_parsed.model_code # <<>>
        /\ req_parsed.os_type \in PlatformNames

\* a pattern matched and nothing is left of the token
C13_Witness ==
    /\ Parsed
    /\ AndroidModel(req_ua) = <<>>
    /\ req_parsed.model_code = Name.Android_Device
    /\ req_parsed.os_type = "android"

\* the platforms in the order of their priority, each with its markers
PlatformOrder ==
    << [os_type |-> "android", markers |-> {Tok.android}],
       [os_type |-> "ios", markers |-> {Tok.iphone, Tok.ipad, Tok.ipod}],
       [os_type |-> "windows", markers |-> {Tok.windows}],
       [os_type |-> "macos", markers |-> {Tok.macintosh}],
       [os_type |-> "linux", markers |-> {Tok.linux}] >>

PlatformsPresent(text) ==
    {i \in 1..Len(PlatformOrder) :
        \E m \in PlatformOrder[i].markers : Mentions(text, m)}

\* C14 as stated: empty input and non-empty input without any platform marker
\* both give platform 'unknown' and model token 'Unknown'.
C14_UnparseableIsUnknown ==
    (Parsed /\ PlatformsPresent(req_ua) = {}) =>
        /\ req_parsed.os_type = "unknown"
        /\ req_parsed.model_code = Name.Unknown

\* C14 amended: the model token is 'Unknown' in both cases; the platform is
\* 'unknown' on empty input and 'other' on non-empty input without a marker.
C14_EmptyUnknownElseOther ==
    (Parsed /\ PlatformsPresent(req_ua) = {}) =>
        /\ req_parsed.model_code = Name.Unknown
        /\ req_parsed.os_type = IF req_ua = <<>> THEN "unknown" ELSE "other"

C14_Witness ==
    /\ Parsed
    /\ req_ua # <<>>
    /\ PlatformsPresent(req_ua) = {}
    /\ req_parsed.os_type = "other"
    /\ req_parsed.model_code = Name.Unknown

\* C15: for every combination of markers in a non-empty string, os_type is
\* the highest-priority platform whose marker is present (Android > iOS >
\* Windows > macOS > Linux), and 'other' when none is.
C15_PlatformPriority ==
    (Parsed /\ req_ua # <<>>) =>
        req_parsed.os_type =
            IF PlatformsPresent(req_ua) = {} THEN "other"
            ELSE PlatformOrder[CHOOSE i \in PlatformsPresent(req_ua) :
                     \A j \in PlatformsPresent(req_ua) : i <= j].os_type

\* every platform but Android is named, after the others' markers
C15_Witness ==
    /\ Parsed
    /\ PlatformsPresent(req_ua) = {2, 3, 4, 5}
    /\ MatchAt(ToLower(req_ua), 1, Tok.linux)
    /\ req_parsed.os_type = "ios"

\* the browsers in tie-break order, each with the tokens that select it
RefBrowser(text) ==
    LET Has(t) == Mentions(text, t)
        order == << <<Name.MIUI_Browser, Has(Tok.miuibrowser)>>,
                    <<Name.Edge, Has(Tok.edg)>>,
                    <<Name.Chrome, Has(Tok.chrome) /\ Has(Tok.safari)>>,
                    <<Name.Firefox, Has(Tok.firefox)>>,
                    <<Name.Safari, Has(Tok.safari) /\ ~Has(Tok.chrome)>>,
                    <<Name.Opera, Has(Tok.opera) \/ Has(Tok.opr)>>,
                    <<Name.Unknown, TRUE>> >>
    IN  order[CHOOSE i \in 1..7 : order[i][2] /\ \A j \in 1..(i - 1) : ~order[j][2]][1]

\* C16: wherever the browser is detected, it is the first in the order MIUI
\* Browser > Edge > Chrome (Safari token also present) > Firefox > Safari
\* (Chrome token absent) > Opera > Unknown whose tokens are present.
C16_BrowserPriority ==
    (Parsed /\ req_parsed.browser # NoText) =>
        req_parsed.browser = RefBrowser(req_ua)

\* Chrome without Safari gives way to Firefox, which beats Opera
C16_Witness ==
    /\ Parsed
    /\ Mentions(req_ua, Tok.chrome) /\ ~Mentions(req_ua, Tok.safari)
    /\ Mentions(req_ua, Tok.firefox) /\ Mentions(req_ua, Tok.opera)
    /\ req_parsed.browser = Name.Firefox

\* C17: for every non-empty input, whichever platform branch is taken, the
\* browser field of the signature is the result of the browser keyword scan.
C17_BrowserOnEveryPlatform ==
    (Parsed /\ req_ua # <<>>) => req_parsed.browser = RefBrowser(req_ua)

\* C18: parse never returns 'K' as model_code, and the login never calls
\* find_device with 'K', whether 'K' comes from the User-Agent or from the
\* model hint header.
C18_PlaceholderKNeverUsed ==
    /\ Parsed => req_parsed.model_code # Name.K
    /\ Identification =>
           \A i \in 1..Len(req_lookups) : req_lookups[i] # Name.K

\* 'K' in the User-Agent and in the hint: it heads the candidates, none is
\* looked up
C18_Witness ==
    /\ Identification
    /\ Contains(req_ua, Name.K)
    /\ Parse(req_ua).model_code = Name.Android_Device
    /\ StripQuotes(req_hint) = Name.K
    /\ req_parsed.model_code = Name.K
    /\ req_codes = <<Name.K>>
    /\ req_lookups = <<>>

\* C19: the login never calls find_device with 'Unknown' or with a generic
\* device sentinel ('Android Device', 'Linux Device', 'Windows PC').
C19_NoPlaceholderLookup ==
    Identification =>
        \A i \in 1..Len(req_lookups) :
            req_lookups[i] \notin {Name.Unknown, Name.Android_Device, Name.Linux_Device, Name.Windows_PC}

(***************************************************************************)
(* Properties of the catalog (checked under SpecDb).                       *)
(***************************************************************************)
\* C20: for every loaded catalog, also one with rows whose model codes differ
\* only in letter case, find_device returns the same entry for any two
\* tokens that are equal ignoring case.
C20_CaseInsensitiveLookup ==
    pcD = "found" =>
        \A t \in Tokens :
            ToLower(t) = ToLower(asked) => FindDevice(db.devices, t) = answer

\* rows of the device table read before a row with a missing cell
RowsRead ==
    {i \in 1..Len(csv_devices) :
        \A j \in 1..i :
            NoText \notin {csv_devices[j].Brand, csv_devices[j].Model_Code,
                           csv_devices[j].Marketing_Name}}

\* the model codes of the rows the catalog was loaded from
LoadedCodes == {Strip(csv_devices[i].Model_Code) : i \in RowsRead} \ {<<>>}

\* C21: find_device returns an entry only if the token equals, ignoring
\* letter case, the model code of a loaded catalog row (None for a token
\* absent under every case variant), and the device matched by the login
\* loop has a model code equal, ignoring case, to one of the tokens tried.
C21_ExactMatchOnly ==
    /\ (pcD = "found" /\ answer # None) =>
           /\ ToLower(answer.model_code) = ToLower(asked)
           /\ answer.model_code \in LoadedCodes
    /\ (pcD = "found"
          /\ \A c \in LoadedCodes : ToLower(c) # ToLower(asked)) =>
           answer = None
    /\ (pcD = "matched" /\ matched # None) =>
           /\ \E k \in 1..Len(req_lookups) :
                  ToLower(req_lookups[k]) = ToLower(matched.model_code)
           /\ matched.model_code \in LoadedCodes

\* the login loop misses with its first token and matches the second through
\* a case variant of a row's model code
C21_Witness ==
    /\ pcD = "matched"
    /\ matched # None
    /\ Len(req_lookups) = 2
    /\ req_lookups[2] # matched.model_code
    /\ ToLower(req_lookups[2]) = ToLower(matched.model_code)

\* positions in the iteration order at which a catalog entry comes first
FirstSeen ==
    {i \in 1..Len(db.keys) :
        \A j \in 1..(i - 1) :
            <<db.devices[db.keys[j]].brand, db.devices[db.keys[j]].model_code>>
                # <<db.devices[db.keys[i]].brand, db.devices[db.keys[i]].model_code>>}

\* x <= y for fractions with positive denominators
FracLeq(x, y) == x[1] * y[2] <= y[1] * x[2]

\* the larger of the two similarities of an entry to the query
EntryScore(device, query) ==
    IF FracLeq(SequenceMatcherRatio(ToLower(query), ToLower(device.model_code)),
               SequenceMatcherRatio(ToLower(query), ToLower(device.marketing_name)))
    THEN SequenceMatcherRatio(ToLower(query), ToLower(device.marketing_name))
    ELSE SequenceMatcherRatio(ToLower(query), ToLower(device.model_code))

\* positions of the entries that reach the threshold with the highest score
BestSeen(query, threshold) ==
    {i \in FirstSeen :
        /\ FracLeq(threshold, EntryScore(db.devices[db.keys[i]], query))
        /\ \A j \in FirstSeen :
               FracLeq(EntryScore(db.devices[db.keys[j]], query),
                       EntryScore(db.devices[db.keys[i]], query))}

\* C22: search_device returns the exact match when find_device finds one;
\* otherwise the entry with the highest score, if that score is >= threshold,
\* the first in iteration order among equal scores, and None when no entry
\* reaches the threshold; for every threshold in [0, 1], 0 included.
C22_SearchReturnsBest ==
    pcD = "searched" =>
        IF FindDevice(db.devices, asked) # None
        THEN answer = FindDevice(db.devices, asked)
        ELSE IF BestSeen(asked, asked_threshold) = {}
             THEN answer = None
        ELSE answer = db.devices[db.keys[SetMin(BestSeen(asked, asked_threshold))]]

\* a row of the device table with all its cells
CompleteRow(row) ==
    NoText \notin {row.Brand, row.Model_Code, row.Marketing_Name}

\* a row of the price table with all its cells and a number for a price
CompletePrice(row) ==
    /\ NoText \notin {row.Marketing_Name, row.Price_IDR}
    /\ ParsePriceIdr(Strip(row.Price_IDR)) # NoPrice

\* C23: malformed or incomplete rows of either table are skipped one by one:
\* every well-formed device row, before or after a malformed one, is in the
\* index, and the price of every well-formed price row is merged into the
\* entries with its marketing name.
C23_MalformedRowsSkipped ==
    pcD = "loaded" =>
        /\ \A i \in 1..Len(csv_devices) :
               (CompleteRow(csv_devices[i])
                  /\ Strip(csv_devices[i].Model_Code) # <<>>) =>
                   Strip(csv_devices[i].Model_Code) \in DOMAIN db.devices
        /\ \A k \in DOMAIN db.devices :
               \A j \in 1..Len(csv_prices) :
                   (CompletePrice(csv_prices[j])
                      /\ ToLower(Strip(csv_prices[j].Marketing_Name))
                            = ToLower(db.devices[k].marketing_name)) =>
                       db.devices[k].price_idr
                           = ParsePriceIdr(Strip(csv_prices[j].Price_IDR))

(***************************************************************************)
(* Properties of the model hint (checked under SpecUA).                    *)
(***************************************************************************)
\* the Sec-CH-UA-Model header is present and non-empty without its quotes
HintGiven == req_hint # <<>> /\ StripQuotes(req_hint) # <<>>

\* C24: a model hint that is present and non-empty after trimming its
\* wrapping double quotes is the first token looked up in the catalog, ahead
\* of every token derived from the User-Agent, and is the model token
\* recorded for the login.
C24_HintLookedUpFirst ==
    (Identification /\ HintGiven) =>
        /\ req_parsed.model_code = StripQuotes(req_hint)
        /\ req_lookups # <<>>
        /\ req_lookups[1] = StripQuotes(req_hint)

\* C24, amended: the hint is the recorded model token; it is the first token
\* looked up unless it is one of the placeholders 'K' and 'Android Device',
\* which are never looked up.
C24_HintFirstUnlessPlaceholder ==
    (Identification /\ HintGiven) =>
        /\ req_parsed.model_code = StripQuotes(req_hint)
        /\ IF StripQuotes(req_hint) \in {Name.K, Name.Android_Device}
           THEN \A i \in 1..Len(req_lookups) :
                    req_lookups[i] # StripQuotes(req_hint)
           ELSE /\ req_lookups # <<>>
                /\ req_lookups[1] = StripQuotes(req_hint)

\* a hint not in the catalog is looked up before the model of the User-Agent
C24_Witness ==
    /\ Identification
    /\ HintGiven
    /\ Parse(req_ua).model_code \notin {Name.Unknown, Name.Android_Device,
                                        StripQuotes(req_hint)}
    /\ Len(req_lookups) >= 2
    /\ req_lookups[1] = StripQuotes(req_hint)
    /\ req_lookups[2] = Parse(req_ua).model_code
    /\ req_parsed.model_code = StripQuotes(req_hint)

====
